---- MODULE Spec2Model ----
(***************************************************************************)
(* A model of the feedback analysis pipeline of user-insight-engine        *)
(* (src/src/lib/analysis-engine.ts) and of the page that drives it         *)
(* (src/src/pages/Index.tsx, src/src/components/AnalysisInput.tsx).        *)
(*                                                                         *)
(* Strings are TLA+ strings; a character is a string of length 1.          *)
(* JavaScript indices are 0-based, the indices here are 1-based.           *)
(* Array.prototype.filter is SelectSeq of Sequences.                       *)
(***************************************************************************)
EXTENDS Integers, Sequences, FiniteSets, TLC

VARIABLES
    input,         \* the text handed to analyzeUserFeedback
    typed,         \* number of phrases that make up input
    report,        \* the last value analyzeUserFeedback returned, or NoReport
    lastIndex,     \* lastIndex of the RegExp objects of IMPLICIT_THEME_PATTERNS
    calls,         \* the calls made so far, in order: each one [text, outcome]
    argSentences,  \* clusterSentences: the argument sentences
    argThreshold,  \* clusterSentences: the argument threshold
    retClusters,   \* clusterSentences: the returned clusters, or NoClusters
    retSimilarity, \* semanticSimilarity: the arguments and the returned number
    segmented,     \* extractSentences: the returned sentences of input, or NotSegmented
    normalized,    \* normalizeToken: the argument and the returned string
    isAnalyzing,   \* Index: the state isAnalyzing
    result,        \* Index: the state result, NoResult for null
    timers         \* Index: the texts of the handleAnalyze calls waiting for their timer

vars == <<input, typed, report, lastIndex, calls, argSentences, argThreshold,
          retClusters, retSimilarity, segmented, normalized,
         isAnalyzing, result, timers>>

\* the state of the page
pageVars == <<isAnalyzing, result, timers>>

(***************************************************************************)
(* Characters and the String methods the engine uses.                      *)
(***************************************************************************)
CharsOf(s) == { SubSeq(s, i, i) : i \in 1..Len(s) }

UpperLetters == "ABCDEFGHIJKLMNOPQRSTUVWXYZ"
LowerLetters == "abcdefghijklmnopqrstuvwxyz"
Digits == "0123456789"

\* \s of a JavaScript regular expression, and the characters trim() removes
WhiteSpace == {" ", "\n", "\t", "\r"}
\* \w of a JavaScript regular expression
WordChars == CharsOf(UpperLetters) \cup CharsOf(LowerLetters) \cup CharsOf(Digits) \cup {"_"}
\* [a-z0-9\s]
TokenChars == CharsOf(LowerLetters) \cup CharsOf(Digits) \cup WhiteSpace
\* [.!?\n]
SentenceDelimiters == {".", "!", "?", "\n"}

LowerOf == [c \in CharsOf(UpperLetters) |->
              LET i == CHOOSE k \in 1..26 : SubSeq(UpperLetters, k, k) = c
              IN  SubSeq(LowerLetters, i, i)]

\* String.prototype.toLowerCase, character by character (the two halves apart)
RECURSIVE toLowerCase(_)
toLowerCase(s) ==
    IF Len(s) = 0 THEN ""
    ELSE IF Len(s) = 1 THEN (IF s \in DOMAIN LowerOf THEN LowerOf[s] ELSE s)
    ELSE LET h == Len(s) \div 2
         IN  toLowerCase(SubSeq(s, 1, h)) \o toLowerCase(SubSeq(s, h + 1, Len(s)))

\* String.prototype.includes
includes(s, k) == \E i \in 0..(Len(s) - Len(k)) : SubSeq(s, i + 1, i + Len(k)) = k

\* s.replace(/suffix$/, "")
stripSuffix(s, suffix) ==
    IF Len(s) >= Len(suffix) /\ SubSeq(s, Len(s) - Len(suffix) + 1, Len(s)) = suffix
    THEN SubSeq(s, 1, Len(s) - Len(suffix))
    ELSE s

\* String.prototype.trim
RECURSIVE trimStart(_)
trimStart(s) ==
    IF s # "" /\ SubSeq(s, 1, 1) \in WhiteSpace THEN trimStart(SubSeq(s, 2, Len(s))) ELSE s

RECURSIVE trimEnd(_)
trimEnd(s) ==
    IF s # "" /\ SubSeq(s, Len(s), Len(s)) \in WhiteSpace
    THEN trimEnd(SubSeq(s, 1, Len(s) - 1)) ELSE s

\* white space removed at the start only
trimLeading(s) == trimStart(s)

trim(s) == trimEnd(trimStart(s))

\* the elements of a set of numbers in increasing order
RECURSIVE SortedSeq(_)
SortedSeq(S) ==
    IF S = {} THEN <<>>
    ELSE LET m == CHOOSE x \in S : \A y \in S : x <= y
         IN  <<m>> \o SortedSeq(S \ {m})

\* s.split(/[delims]+/): the pieces between the maximal runs of delimiters;
\* a run at the very start or end leaves an empty piece there, as in JavaScript.
pieceStarts(s, delims) ==
    { a \in 1..Len(s) : /\ SubSeq(s, a, a) \notin delims
                        /\ (a = 1 \/ SubSeq(s, a - 1, a - 1) \in delims) }

pieceEnd(s, delims, a) ==
    CHOOSE b \in a..Len(s) :
        /\ \A i \in a..b : SubSeq(s, i, i) \notin delims
        /\ (b = Len(s) \/ SubSeq(s, b + 1, b + 1) \in delims)

piecesFrom(s, delims, ordered) ==
    (IF SubSeq(s, 1, 1) \in delims THEN <<"">> ELSE <<>>)
    \o [k \in 1..Len(ordered) |-> SubSeq(s, ordered[k], pieceEnd(s, delims, ordered[k]))]
    \o (IF SubSeq(s, Len(s), Len(s)) \in delims THEN <<"">> ELSE <<>>)

split(s, delims) ==
    IF Len(s) = 0 THEN <<"">> ELSE piecesFrom(s, delims, SortedSeq(pieceStarts(s, delims)))

\* s.replace(/[^keep]/g, ""), character by character (the two halves apart)
RECURSIVE keepOnly(_, _)
keepOnly(s, keep) ==
    IF Len(s) = 0 THEN ""
    ELSE IF Len(s) = 1 THEN (IF s \in keep THEN s ELSE "")
    ELSE LET h == Len(s) \div 2
         IN  keepOnly(SubSeq(s, 1, h), keep) \o keepOnly(SubSeq(s, h + 1, Len(s)), keep)

\* Array.prototype.slice(0, n)
slice(seq, n) == SubSeq(seq, 1, IF Len(seq) < n THEN Len(seq) ELSE n)

Range(seq) == { seq[i] : i \in 1..Len(seq) }

(***************************************************************************)
(* extractSentences, normalizeToken, getTokens                             *)
(***************************************************************************)
MinSentenceLength == 10

\* .map(s => s.trim())
trimAll(pieces) == [i \in 1..Len(pieces) |-> trim(pieces[i])]

extractSentences(text) ==
    LET long(s) == Len(s) > MinSentenceLength
    IN  SelectSeq(trimAll(split(text, SentenceDelimiters)), long)

Suffixes == <<"ing", "tion", "ment", "ness", "able", "ful", "less", "ous", "ive",
              "ly", "ed", "er", "es", "s">>

\* the chain of .replace calls: each one works on the result of the one before
RECURSIVE stripChain(_, _)
stripChain(word, i) ==
    IF i > Len(Suffixes) THEN word
    ELSE stripChain(stripSuffix(word, Suffixes[i]), i + 1)

normalizeToken(word) == stripChain(word, 1)

MinTokenLength == 2

getTokens(text) ==
    LET long(w) == Len(w) > MinTokenLength
    IN  SelectSeq(split(keepOnly(toLowerCase(text), TokenChars), WhiteSpace), long)

(***************************************************************************)
(* semanticSimilarity.  A number overlap / min is kept as the fraction     *)
(* [num |-> overlap, den |-> min]; 0 is 0/1.                               *)
(***************************************************************************)
Zero == [num |-> 0, den |-> 1]
Min(a, b) == IF a < b THEN a ELSE b
\* x >= y on fractions with positive denominators
GE(x, y) == x.num * y.den >= y.num * x.den

rootForms(text) == { normalizeToken(w) : w \in Range(getTokens(text)) }

\* the overlap divided by the size of the first set
overlapOverFirst(tokensA, tokensB) ==
    IF Cardinality(tokensA) = 0 \/ Cardinality(tokensB) = 0 THEN Zero
    ELSE [num |-> Cardinality({ t \in tokensA : t \in tokensB }),
          den |-> Cardinality(tokensA)]

\* the overlap counted over the root forms that are not the empty string
overlapOfNonEmpty(tokensA, tokensB) ==
    IF Cardinality(tokensA) = 0 \/ Cardinality(tokensB) = 0 THEN Zero
    ELSE [num |-> Cardinality({ t \in tokensA : t # "" /\ t \in tokensB }),
          den |-> Min(Cardinality(tokensA), Cardinality(tokensB))]

\* the overlap divided by the size of the larger set
overlapOverLarger(tokensA, tokensB) ==
    IF Cardinality(tokensA) = 0 \/ Cardinality(tokensB) = 0 THEN Zero
    ELSE [num |-> Cardinality({ t \in tokensA : t \in tokensB }),
          den |-> Cardinality(tokensA) + Cardinality(tokensB)
                    - Min(Cardinality(tokensA), Cardinality(tokensB))]

\* overlap / Math.min(tokensA.size, tokensB.size)
overlapRatio(tokensA, tokensB) ==
    IF Cardinality(tokensA) = 0 \/ Cardinality(tokensB) = 0 THEN Zero
    ELSE [num |-> Cardinality({ t \in tokensA : t \in tokensB }),
          den |-> Min(Cardinality(tokensA), Cardinality(tokensB))]

semanticSimilarity(a, b) == overlapRatio(rootForms(a), rootForms(b))

(***************************************************************************)
(* clusterSentences.  clusterIndices is the loop on the positions          *)
(* (the set "assigned" of the code); clusterSentences is what it returns.  *)
(***************************************************************************)
\* the inner loop without its test of assigned.has(j)
absorbedAgain(sentences, th, i, assigned) ==
    { j \in (i + 1)..Len(sentences) :
        GE(semanticSimilarity(sentences[i], sentences[j]), th) }

\* every later position not yet assigned joins, whatever its similarity
absorbedAll(sentences, th, i, assigned) ==
    { j \in (i + 1)..Len(sentences) : j \notin assigned }

\* the inner loop left after the first position that joins
absorbedFirst(sentences, th, i, assigned) ==
    LET joins(j) == j \notin assigned /\ GE(semanticSimilarity(sentences[i], sentences[j]), th)
    IN  { j \in (i + 1)..Len(sentences) : joins(j) /\ \A k \in (i + 1)..(j - 1) : ~joins(k) }

\* the inner loop: the later positions that join the cluster of position i
absorbedBy(sentences, th, i, assigned) ==
    { j \in (i + 1)..Len(sentences) :
        /\ j \notin assigned
        /\ GE(semanticSimilarity(sentences[i], sentences[j]), th) }

RECURSIVE clusterLoop(_, _, _, _, _)
RECURSIVE clusterPush(_, _, _, _, _, _)

\* the outer loop from position i on
clusterLoop(sentences, th, i, assigned, acc) ==
    IF i > Len(sentences) THEN acc
    ELSE IF i \in assigned THEN clusterLoop(sentences, th, i + 1, assigned, acc)
    ELSE clusterPush(sentences, th, i, assigned, acc, absorbedBy(sentences, th, i, assigned))

\* clusters.push(cluster), with the positions of the cluster now assigned
clusterPush(sentences, th, i, assigned, acc, absorbed) ==
    clusterLoop(sentences, th, i + 1, assigned \cup {i} \cup absorbed,
                Append(acc, <<i>> \o SortedSeq(absorbed)))

clusterIndices(sentences, th) == clusterLoop(sentences, th, 1, {}, <<>>)

\* the sentences at the positions of each cluster
sentencesAt(sentences, idx) ==
    [c \in 1..Len(idx) |-> [m \in 1..Len(idx[c]) |-> sentences[idx[c][m]]]]

clusterSentences(sentences, th) == sentencesAt(sentences, clusterIndices(sentences, th))

DefaultThreshold == [num |-> 7, den |-> 20]    \* 0.35
InferredThreshold == [num |-> 1, den |-> 4]    \* 0.25

(***************************************************************************)
(* inferSentiment                                                          *)
(***************************************************************************)
negativeSignals == <<"but", "however", "although", "unfortunately", "wish", "if only",
      "struggle", "hard", "difficult", "problem", "issue", "can't", "cannot",
      "won't", "shouldn't", "bad", "worse", "worst", "lack", "poor",
      "no way", "not good", "not great", "could be better", "needs work",
      "too much", "too many", "not enough">>

positiveSignals == <<"thank", "appreciate", "glad", "happy", "enjoy", "pleased",
      "excellent", "wonderful", "fantastic", "good job", "well done",
      "perfect", "works well", "impressed", "helpful", "nice", "solid",
      "clean", "fast", "quick">>

\* signals.filter(s => lower.includes(s)).length
countIncluded(lower, signals) ==
    Cardinality({ i \in 1..Len(signals) : includes(lower, signals[i]) })

verdict(negScore, posScore) ==
    IF negScore > posScore THEN "negative"
    ELSE IF posScore > negScore THEN "positive"
    ELSE "neutral"

sentimentOfLower(lower) ==
    verdict(countIncluded(lower, negativeSignals), countIncluded(lower, positiveSignals))

inferSentiment(sentence) == sentimentOfLower(toLowerCase(sentence))

(***************************************************************************)
(* The taxonomy tables                                                     *)
(***************************************************************************)
PAIN_KEYWORDS == <<
    [keywords |-> <<"slow", "loading", "wait", "lag", "performance",
                      "takes forever", "too long", "speed">>,
     issue |-> "Performance & Speed Issues"],
    [keywords |-> <<"confus", "unclear", "hard to find", "lost", "where",
                      "navigate", "find", "hidden", "buried">>,
     issue |-> "Navigation & Discoverability"],
    [keywords |-> <<"bug", "crash", "error", "broken", "doesn't work",
                      "fail", "glitch", "freeze", "stuck", "hang">>,
     issue |-> "Reliability & Bugs"],
    [keywords |-> <<"price", "expensive", "cost", "pay", "subscription",
                      "billing", "charge", "fee", "worth">>,
     issue |-> "Pricing Concerns"],
    [keywords |-> <<"support", "help", "response", "contact", "ticket",
                      "resolve", "agent", "wait time", "reply">>,
     issue |-> "Customer Support Quality"],
    [keywords |-> <<"design", "ugly", "outdated", "look", "ui",
                      "interface", "layout", "visual", "aesthetic",
                      "cluttered">>,
     issue |-> "UI/UX Design Quality"],
    [keywords |-> <<"feature", "missing", "need", "wish", "want", "should",
                      "add", "include", "implement", "request">>,
     issue |-> "Missing Features"],
    [keywords |-> <<"mobile", "phone", "app", "responsive", "tablet",
                      "small screen", "touch">>,
     issue |-> "Mobile Experience"],
    [keywords |-> <<"security", "privacy", "data", "breach", "hack",
                      "protect", "encrypt", "password">>,
     issue |-> "Security & Privacy Concerns"],
    [keywords |-> <<"document", "docs", "tutorial", "guide", "learn",
                      "how to", "instruction", "manual">>,
     issue |-> "Documentation & Learning Resources"],
    [keywords |-> <<"integrat", "connect", "api", "plugin", "extension",
                      "third-party", "sync", "import", "export">>,
     issue |-> "Integration & Compatibility"]
>>

EMOTION_KEYWORDS == <<
    [keywords |-> <<"frustrat", "annoyed", "angry", "hate", "terrible",
                      "fed up", "sick of", "ridiculous">>,
     emotion |-> "Frustration",
     sentiment |-> "negative"],
    [keywords |-> <<"confus", "unclear", "don't understand", "complicated",
                      "complex", "overwhelming", "lost">>,
     emotion |-> "Confusion",
     sentiment |-> "negative"],
    [keywords |-> <<"love", "great", "amazing", "awesome", "best",
                      "fantastic", "wonderful", "excellent">>,
     emotion |-> "Delight",
     sentiment |-> "positive"],
    [keywords |-> <<"trust", "reliable", "secure", "safe", "depend",
                      "confident", "consistent">>,
     emotion |-> "Trust",
     sentiment |-> "positive"],
    [keywords |-> <<"disappoint", "expected", "letdown", "underwhelm",
                      "let down", "fell short">>,
     emotion |-> "Disappointment",
     sentiment |-> "negative"],
    [keywords |-> <<"easy", "simple", "intuitive", "smooth", "seamless",
                      "effortless", "straightforward">>,
     emotion |-> "Satisfaction",
     sentiment |-> "positive"],
    [keywords |-> <<"anxious", "worried", "concern", "nervous", "afraid",
                      "scary", "uncertain">>,
     emotion |-> "Anxiety",
     sentiment |-> "negative"],
    [keywords |-> <<"excit", "eager", "look forward", "can't wait",
                      "thrilled", "pumped">>,
     emotion |-> "Excitement",
     sentiment |-> "positive"]
>>

BIAS_PATTERNS == <<
    [keywords |-> <<"always", "never", "every time", "constantly",
                      "without fail">>,
     bias |-> "Frequency Illusion",
     impact |-> "Users may overstate issue frequency"],
    [keywords |-> <<"used to", "before", "old version", "previous",
                      "back when", "the way it was">>,
     bias |-> "Status Quo Bias",
     impact |-> "Resistance to change may skew feedback"],
    [keywords |-> <<"everyone", "nobody", "all users", "we all",
                      "most people", "no one">>,
     bias |-> "False Consensus Effect",
     impact |-> "Individual opinions projected as group sentiment"],
    [keywords |-> <<"first time", "initial", "when i started",
                      "first impression", "right away">>,
     bias |-> "Primacy Effect",
     impact |-> "First impressions disproportionately shape perception"],
    [keywords |-> <<"just now", "recently", "last time", "today",
                      "this week", "latest">>,
     bias |-> "Recency Bias",
     impact |-> "Recent experiences weighted more heavily"],
    [keywords |-> <<"compared to", "unlike", "better than", "worse than",
                      "competitor", "alternative">>,
     bias |-> "Anchoring Bias",
     impact |-> "Comparisons to competitors anchor expectations"]
>>

\* each entry has one pattern, /\b(alternatives)\b/i
IMPLICIT_THEME_PATTERNS == <<
    [alternatives |-> <<"quick", "fast", "hurry", "rush", "time", "efficient",
                      "productive">>,
     theme |-> "Efficiency Seeking",
     description |-> "Users prioritize speed and streamlined workflows",
     user_segment |-> "Productivity-Focused Users"],
    [alternatives |-> <<"try", "test", "experiment", "explore", "discover",
                      "check out", "play with">>,
     theme |-> "Feature Exploration",
     description |-> "Users actively discover and evaluate capabilities",
     user_segment |-> "Exploratory Users"],
    [alternatives |-> <<"reliable", "stable", "consistent", "depend",
                      "count on", "trust">>,
     theme |-> "Reliability Dependence",
     description |-> "Users need predictable, stable experiences",
     user_segment |-> "Mission-Critical Users"],
    [alternatives |-> <<"automat", "workflow", "repeat", "batch", "routine",
                      "template", "preset">>,
     theme |-> "Automation Desire",
     description |-> "Users seek to reduce repetitive manual work",
     user_segment |-> "Power Users"],
    [alternatives |-> <<"compare", "switch", "migrate", "alternative",
                      "option", "choice">>,
     theme |-> "Evaluation Mindset",
     description |-> "Users actively compare against alternatives",
     user_segment |-> "Evaluating Users"],
    [alternatives |-> <<"learn", "understand", "figure out", "how do",
                      "how to", "tutorial", "guide">>,
     theme |-> "Learning Orientation",
     description |-> "Users invest in understanding the product deeply",
     user_segment |-> "Self-Directed Learners"],
    [alternatives |-> <<"daily", "every day", "morning", "routine", "regular",
                      "habit", "always use">>,
     theme |-> "Habitual Usage",
     description |-> "Product is embedded in daily workflows",
     user_segment |-> "Daily Active Users"],
    [alternatives |-> <<"suggest", "recommend", "feedback", "idea", "opinion",
                      "vote", "survey">>,
     theme |-> "Co-Creation Drive",
     description |-> "Users want to influence product direction",
     user_segment |-> "Engaged Advocates"]
>>

\* the patterns written with the flags "gi"
ThemePatternsWithG == TRUE

\* the flags of the patterns of IMPLICIT_THEME_PATTERNS: "i", not global
ThemePatternsGlobal == FALSE

(***************************************************************************)
(* JavaScript values and outcomes                                          *)
(***************************************************************************)
\* what reading an array of strings outside its bounds gives
Undefined == "<undefined>"
\* array[i - 1], for an array of strings
at(seq, i) == IF i \in 1..Len(seq) THEN seq[i] ELSE Undefined
\* a || fallback, for strings
orElse(a, fallback) == IF a = Undefined \/ a = "" THEN fallback ELSE a

\* the outcome of a piece of code: the value it computes, or the TypeError
\* thrown by reading a property of undefined
Ok(v) == [threw |-> FALSE, value |-> v]
Throw == [threw |-> TRUE, value |-> "TypeError"]

\* .filter(Boolean) on the result of a .map whose callback returns null (<<>>)
\* or an object (<<object>>)
RECURSIVE compact(_)
compact(seq) == IF seq = <<>> THEN <<>> ELSE Head(seq) \o compact(Tail(seq))

\* p.keywords.some(k => s.toLowerCase().includes(k))
includesAny(lowerText, words) == \E i \in 1..Len(words) : includes(lowerText, words[i])

matchesAny(s, keywords) == includesAny(toLowerCase(s), keywords)

\* the plural whatever n is
mentionsPlural(n) == ToString(n) \o " mentions"

\* `${n} mention${n > 1 ? "s" : ""}`
mentions(n) == ToString(n) \o " mention" \o (IF n > 1 THEN "s" ELSE "")

\* the thresholds compared with > in the place of >=
tierAbove(n, high, medium, low) == IF n > 3 THEN high ELSE IF n > 2 THEN medium ELSE low

\* n >= 3 ? high : n >= 2 ? medium : low
tier(n, high, medium, low) == IF n >= 3 THEN high ELSE IF n >= 2 THEN medium ELSE low

RECURSIVE Sum(_)
Sum(seq) == IF seq = <<>> THEN 0 ELSE Head(seq) + Sum(Tail(seq))

(***************************************************************************)
(* Pain points                                                             *)
(***************************************************************************)
sevOrder == [high |-> 3, medium |-> 2, low |-> 1]

\* Array.prototype.sort with a comparator keys[b] - keys[a]: descending by key,
\* and stable (elements with equal keys keep their order)
sortDescending(seq, keys) ==
    LET n      == Len(seq)
        pos(i) == 1 + Cardinality({ j \in 1..n :
                        keys[j] > keys[i] \/ (keys[j] = keys[i] /\ j < i) })
    IN  [k \in 1..n |-> seq[CHOOSE i \in 1..n : pos(i) = k]]

sortBySeverity(seq) ==
    sortDescending(seq, [i \in 1..Len(seq) |-> sevOrder[seq[i].severity]])

matchingSentences(sentences, keywords) ==
    LET hit(s) == matchesAny(s, keywords) IN SelectSeq(sentences, hit)

clusterBoost(matching, clusters) ==
    IF Len(matching) > 0
    THEN LET touched(c) == \E m \in 1..Len(c) : c[m] \in Range(matching)
         IN  Sum([i \in 1..Len(clusters) |-> IF touched(clusters[i]) THEN Len(clusters[i]) ELSE 0])
               - Len(matching)
    ELSE 0

\* the boost added whole
totalMentionsWholeBoost(matching, clusters) == Len(matching) + clusterBoost(matching, clusters)

\* Math.floor(clusterBoost * 0.5)
totalMentions(matching, clusters) == Len(matching) + (clusterBoost(matching, clusters) \div 2)

\* if (total === 0) return null; return { issue, frequency, severity, quotes }
painPointWith(p, matching, total) ==
    IF total = 0 THEN <<>>
    ELSE << [issue     |-> p.issue,
             frequency |-> mentions(total),
             severity  |-> tier(total, "high", "medium", "low"),
             quotes    |-> slice(matching, 3)] >>

painPointFrom(p, matching, clusters) ==
    painPointWith(p, matching, totalMentions(matching, clusters))

\* the .map callback
painPointOf(p, sentences, clusters) ==
    painPointFrom(p, matchingSentences(sentences, p.keywords), clusters)

\* PAIN_KEYWORDS.map(...).filter(Boolean)
mappedPainPoints(sentences, clusters) ==
    compact([i \in 1..Len(PAIN_KEYWORDS) |-> painPointOf(PAIN_KEYWORDS[i], sentences, clusters)])

\* ... .sort((a, b) => sevOrder[b.severity] - sevOrder[a.severity])
explicitPainPoints(sentences, clusters) == sortBySeverity(mappedPainPoints(sentences, clusters))

\* s.length > n ? s.substring(0, n - 3) + "..." : s
truncate(s, n) == IF Len(s) > n THEN SubSeq(s, 1, n - 3) \o "..." ELSE s

\* one "Inferred Issue" per cluster of negative sentences, at most three;
\* cluster[0].length throws when cluster[0] is undefined
inferredIssue(cluster) ==
    [issue     |-> "Inferred Issue: \"" \o truncate(cluster[1], 60) \o "\"",
     frequency |-> mentions(Len(cluster)),
     severity  |-> tier(Len(cluster), "high", "medium", "low"),
     quotes    |-> slice(cluster, 2)]

\* inferredClusters.slice(0, 3).forEach(cluster => pain_points.push(...))
pushInferred(inferredClusters) ==
    IF \E i \in 1..Len(inferredClusters) : at(inferredClusters[i], 1) = Undefined
    THEN Throw
    ELSE Ok([i \in 1..Len(inferredClusters) |-> inferredIssue(inferredClusters[i])])

inferredFrom(negativeSentences) ==
    IF Len(negativeSentences) = 0 THEN Ok(<<>>)
    ELSE pushInferred(slice(clusterSentences(negativeSentences, InferredThreshold), 3))

inferredPainPoints(sentences) ==
    LET negative(s) == inferSentiment(s) = "negative"
    IN  inferredFrom(SelectSeq(sentences, negative))

\* the fallback run whatever the explicit stage found
andInferredPainPoints(explicit, sentences) ==
    IF inferredPainPoints(sentences).threw THEN Throw
    ELSE Ok(explicit \o inferredPainPoints(sentences).value)

\* if (pain_points.length === 0) { ... }
orInferredPainPoints(explicit, sentences) ==
    IF Len(explicit) = 0 THEN inferredPainPoints(sentences) ELSE Ok(explicit)

painPoints(sentences, clusters) ==
    orInferredPainPoints(explicitPainPoints(sentences, clusters), sentences)

(***************************************************************************)
(* Emotional patterns                                                      *)
(***************************************************************************)
\* if (matches.length === 0) return null; return { emotion, intensity, ... }
emotionWith(e, matches) ==
    IF Len(matches) = 0 THEN <<>>
    ELSE << [emotion   |-> e.emotion,
             intensity |-> tier(Len(matches), "High", "Medium", "Low"),
             trigger   |-> orElse(at(matches, 1), ""),
             sentiment |-> e.sentiment] >>

\* the .map callback
emotionOf(e, sentences) == emotionWith(e, matchingSentences(sentences, e.keywords))

explicitEmotions(sentences) ==
    compact([i \in 1..Len(EMOTION_KEYWORDS) |-> emotionOf(EMOTION_KEYWORDS[i], sentences)])

\* the sentences of one sentiment, in order: their number is
\* sentimentCounts[kind], the first one is sentimentExamples[kind]
withSentiment(sentences, kind) ==
    LET is(s) == inferSentiment(s) = kind IN SelectSeq(sentences, is)

\* the three findings as alternatives: the first one that applies and no other
inferredEmotionsFirstOnly(negative, positive, neutral) ==
    IF Len(negative) > 0
    THEN << [emotion   |-> "Implicit Dissatisfaction",
             intensity |-> tier(Len(negative), "High", "Medium", "Low"),
             trigger   |-> orElse(at(negative, 1), ""),
             sentiment |-> "negative"] >>
    ELSE IF Len(positive) > 0
    THEN << [emotion   |-> "Implicit Approval",
             intensity |-> tier(Len(positive), "High", "Medium", "Low"),
             trigger   |-> orElse(at(positive, 1), ""),
             sentiment |-> "positive"] >>
    ELSE IF Len(neutral) > 0
    THEN << [emotion   |-> "Neutral Engagement",
             intensity |-> "Low",
             trigger   |-> orElse(at(neutral, 1), ""),
             sentiment |-> "neutral"] >>
    ELSE <<>>

inferredEmotionsFrom(negative, positive, neutral) ==
        (IF Len(negative) > 0
         THEN << [emotion   |-> "Implicit Dissatisfaction",
                  intensity |-> tier(Len(negative), "High", "Medium", "Low"),
                  trigger   |-> orElse(at(negative, 1), ""),
                  sentiment |-> "negative"] >>
         ELSE <<>>)
        \o
        (IF Len(positive) > 0
         THEN << [emotion   |-> "Implicit Approval",
                  intensity |-> tier(Len(positive), "High", "Medium", "Low"),
                  trigger   |-> orElse(at(positive, 1), ""),
                  sentiment |-> "positive"] >>
         ELSE <<>>)
        \o
        (IF Len(neutral) > 0 /\ Len(positive) = 0 /\ Len(negative) = 0
         THEN << [emotion   |-> "Neutral Engagement",
                  intensity |-> "Low",
                  trigger   |-> orElse(at(neutral, 1), ""),
                  sentiment |-> "neutral"] >>
         ELSE <<>>)

inferredEmotions(sentences) ==
    inferredEmotionsFrom(withSentiment(sentences, "negative"),
                         withSentiment(sentences, "positive"),
                         withSentiment(sentences, "neutral"))

\* the explicit findings alone, without the sentiment fallback
explicitEmotionsOnly(explicit, sentences) == explicit

\* if (emotional_patterns.length === 0) { ... }
orInferredEmotions(explicit, sentences) ==
    IF Len(explicit) = 0 THEN inferredEmotions(sentences) ELSE explicit

emotionalPatterns(sentences) == orInferredEmotions(explicitEmotions(sentences), sentences)

(***************************************************************************)
(* RegExp.prototype.test for a pattern /\b(a1|a2|...)\b/i.                 *)
(* Positions are JavaScript's: position p lies before character p + 1.     *)
(***************************************************************************)
\* \b at position p of s
wordBoundary(s, p) ==
    (p >= 1 /\ SubSeq(s, p, p) \in WordChars)
        # (p < Len(s) /\ SubSeq(s, p + 1, p + 1) \in WordChars)

\* the alternatives that match at position p, in the order the pattern tries them
matchesAt(alternatives, lower, p) ==
    IF ~wordBoundary(lower, p) THEN {}
    ELSE { a \in 1..Len(alternatives) :
             /\ p + Len(alternatives[a]) <= Len(lower)
             /\ SubSeq(lower, p + 1, p + Len(alternatives[a])) = alternatives[a]
             /\ wordBoundary(lower, p + Len(alternatives[a])) }

Least(S) == CHOOSE x \in S : \A y \in S : x <= y

\* the positions from position from on where the pattern matches
matchStarts(alternatives, lower, from) ==
    { p \in from..Len(lower) : matchesAt(alternatives, lower, p) # {} }

\* the end of the match at position p: the first alternative that matches there
endOfMatch(alternatives, tried, p) == p + Len(alternatives[Least(tried)])

firstMatchEnd(alternatives, lower, starts) ==
    IF starts = {} THEN -1
    ELSE endOfMatch(alternatives, matchesAt(alternatives, lower, Least(starts)), Least(starts))

matchEndLower(alternatives, lower, from) ==
    firstMatchEnd(alternatives, lower, matchStarts(alternatives, lower, from))

\* the end of the first match that starts at or after position from, or -1;
\* the flag i makes the match case-insensitive
matchEnd(alternatives, s, from) == matchEndLower(alternatives, toLowerCase(s), from)

\* what a global pattern's test returns and leaves in lastIndex
globalOutcome(e) ==
    IF e = -1 THEN [found |-> FALSE, lastIndex |-> 0] ELSE [found |-> TRUE, lastIndex |-> e]

\* rx.test(s) on a RegExp object whose lastIndex is li: a global pattern searches
\* from lastIndex and moves it; any other pattern searches from 0 and leaves it
regexTest(alternatives, global, s, li) ==
    IF global
    THEN IF li > Len(s) THEN [found |-> FALSE, lastIndex |-> 0]
         ELSE globalOutcome(matchEnd(alternatives, s, li))
    ELSE [found |-> matchEnd(alternatives, s, 0) # -1, lastIndex |-> li]

\* /\b(...)\b/i.test(s) on a regular expression literal evaluated for this test
testLiteral(alternatives, s) == regexTest(alternatives, FALSE, s, 0).found

\* sentences.filter(s => p.patterns.some(rx => rx.test(s))).length, with the
\* lastIndex the pattern object is left with
RECURSIVE countMatching(_, _, _, _)
RECURSIVE countTested(_, _, _, _)

countMatching(alternatives, sentences, li, count) ==
    IF sentences = <<>> THEN [count |-> count, lastIndex |-> li]
    ELSE countTested(alternatives, Tail(sentences), count,
                     regexTest(alternatives, ThemePatternsGlobal, Head(sentences), li))

\* the rest of the sentences, after a test that returned t
countTested(alternatives, rest, count, t) ==
    countMatching(alternatives, rest, t.lastIndex, IF t.found THEN count + 1 ELSE count)

(***************************************************************************)
(* Behavioral themes                                                       *)
(***************************************************************************)
explicitThemes(lowerText) ==
    (IF includesAny(lowerText, <<"power user", "advanced", "shortcut">>)
     THEN << [theme |-> "Power User Optimization",
              description |-> "Users seek efficiency and advanced workflows",
              user_segment |-> "Advanced Users"] >>
     ELSE <<>>)
    \o
    (IF includesAny(lowerText, <<"first time", "new", "beginner", "onboard">>)
     THEN << [theme |-> "Onboarding Friction",
              description |-> "New users struggle with initial setup and learning curve",
              user_segment |-> "New Users"] >>
     ELSE <<>>)
    \o
    (IF includesAny(lowerText, <<"team", "collaborat", "share", "together">>)
     THEN << [theme |-> "Collaboration Needs",
              description |-> "Users want better team workflows and sharing capabilities",
              user_segment |-> "Team Users"] >>
     ELSE <<>>)
    \o
    (IF includesAny(lowerText, <<"custom", "configur", "personali", "setting">>)
     THEN << [theme |-> "Customization Desire",
              description |-> "Users want more control over their experience",
              user_segment |-> "All Users"] >>
     ELSE <<>>)

\* IMPLICIT_THEME_PATTERNS.forEach from entry i on; li is the lastIndex of each pattern
RECURSIVE implicitThemes(_, _, _, _, _)
RECURSIVE implicitTheme(_, _, _, _, _, _)
RECURSIVE implicitMatched(_, _, _, _, _, _, _)

implicitThemes(i, sentences, existingThemes, themes, li) ==
    IF i > Len(IMPLICIT_THEME_PATTERNS) THEN [themes |-> themes, lastIndex |-> li]
    ELSE implicitTheme(IMPLICIT_THEME_PATTERNS[i], i, sentences, existingThemes, themes, li)

\* the forEach callback on entry p, the i-th
implicitTheme(p, i, sentences, existingThemes, themes, li) ==
    IF p.theme \in existingThemes
    THEN implicitThemes(i + 1, sentences, existingThemes, themes, li)
    ELSE implicitMatched(p, i, sentences, existingThemes, themes, li,
                         countMatching(p.alternatives, sentences, li[i], 0))

\* the entry of the table itself pushed as the theme
implicitMatchedSharing(p, i, sentences, existingThemes, themes, li, m) ==
    implicitThemes(i + 1, sentences, existingThemes,
                   IF m.count > 0 THEN Append(themes, p) ELSE themes,
                   [li EXCEPT ![i] = m.lastIndex])

\* if (matchCount > 0) behavioral_themes.push(...)
implicitMatched(p, i, sentences, existingThemes, themes, li, m) ==
    implicitThemes(i + 1, sentences, existingThemes,
                   IF m.count > 0
                   THEN Append(themes, [theme |-> p.theme,
                                        description |-> p.description,
                                        user_segment |-> p.user_segment])
                   ELSE themes,
                   [li EXCEPT ![i] = m.lastIndex])

fallbacks == <<
    [theme |-> "Efficiency Seeking",
     description |-> "Users prioritize speed and streamlined workflows",
     user_segment |-> "All Users"],
    [theme |-> "Feature Exploration",
     description |-> "Users actively discover and request new capabilities",
     user_segment |-> "Engaged Users"] >>

MinThemes == 2

\* the while loop of the final fallback
\* fallbacks.find(f => !existingThemes.has(f.theme)), as positions in fallbacks
freeFallbacks(existingThemes) ==
    { k \in 1..Len(fallbacks) : fallbacks[k].theme \notin existingThemes }

RECURSIVE finalFallback(_, _)
RECURSIVE pushFallback(_, _, _)

\* an if in the place of the while: one fallback at most
finalFallbackOnce(themes, existingThemes) ==
    IF Len(themes) >= MinThemes \/ freeFallbacks(existingThemes) = {} THEN themes
    ELSE Append(themes, fallbacks[Least(freeFallbacks(existingThemes))])

finalFallback(themes, existingThemes) ==
    IF Len(themes) >= MinThemes THEN themes
    ELSE pushFallback(themes, existingThemes, freeFallbacks(existingThemes))

\* if (fb) { push(fb); existingThemes.add(fb.theme) } else break
pushFallback(themes, existingThemes, free) ==
    IF free = {} THEN themes
    ELSE finalFallback(Append(themes, fallbacks[Least(free)]),
                       existingThemes \cup {fallbacks[Least(free)].theme})

\* .sort((a, b) => b.length - a.length)
sortByLength(seq) == sortDescending(seq, [i \in 1..Len(seq) |-> Len(seq[i])])

\* clusters.filter(c => c.length >= 2).sort((a, b) => b.length - a.length).slice(0, n)
topClusters(clusters, n) ==
    LET big(c) == Len(c) >= 2
    IN  slice(sortByLength(SelectSeq(clusters, big)), n)

recurringTheme(cluster) ==
    [theme |-> "Recurring Theme: \"" \o truncate(cluster[1], 50) \o "\"",
     description |-> ToString(Len(cluster))
                       \o " semantically similar statements clustered around this topic",
     user_segment |-> "Detected Segment"]

\* the themes and the lastIndex the patterns are left with
\* new Set(behavioral_themes.map(t => t.theme))
themeNames(themes) == { themes[i].theme : i \in 1..Len(themes) }

\* topClusters.forEach(cluster => behavioral_themes.push(...))
pushRecurring(themes, top) == themes \o [i \in 1..Len(top) |-> recurringTheme(top[i])]

\* if (behavioral_themes.length < 2) { ... }: the clusters, then the fallbacks
ensureThemes(themes, existingThemes, clusters) ==
    IF Len(themes) < MinThemes
    THEN finalFallback(pushRecurring(themes, topClusters(clusters, MinThemes - Len(themes))),
                       existingThemes)
    ELSE themes

afterImplicit(implicit, existingThemes, clusters) ==
    [themes    |-> ensureThemes(implicit.themes, existingThemes, clusters),
     lastIndex |-> implicit.lastIndex]

afterExplicit(explicit, sentences, clusters, li) ==
    afterImplicit(implicitThemes(1, sentences, themeNames(explicit), explicit, li),
                  themeNames(explicit), clusters)

\* the themes and the lastIndex the patterns are left with
behavioralThemes(lowerText, sentences, clusters, li) ==
    afterExplicit(explicitThemes(lowerText), sentences, clusters, li)

(***************************************************************************)
(* Cognitive biases                                                        *)
(***************************************************************************)
RECURSIVE join(_, _)
join(seq, sep) ==
    IF seq = <<>> THEN ""
    ELSE IF Len(seq) = 1 THEN seq[1]
    ELSE seq[1] \o sep \o join(Tail(seq), sep)

\* if (matchedKeywords.length === 0) return null; return { bias, evidence, impact }
biasWith(b, matchedKeywords) ==
    IF Len(matchedKeywords) = 0 THEN <<>>
    ELSE << [bias     |-> b.bias,
             evidence |-> "Keywords detected: " \o join(matchedKeywords, ", "),
             impact   |-> b.impact] >>

\* keywords looked up in the segmented sentences only
biasOfSentences(b, lowerText) ==
    LET in(k) == \E n \in 1..Len(extractSentences(lowerText)) : includes(extractSentences(lowerText)[n], k)
    IN  biasWith(b, SelectSeq(b.keywords, in))

\* the .map callback
biasOf(b, lowerText) ==
    LET in(k) == includes(lowerText, k)
    IN  biasWith(b, SelectSeq(b.keywords, in))

explicitBiases(lowerText) ==
    compact([i \in 1..Len(BIAS_PATTERNS) |-> biasOf(BIAS_PATTERNS[i], lowerText)])

absoluteWords == <<"always", "never", "every", "all", "none", "impossible",
                   "definitely", "absolutely", "completely">>
comparisonWords == <<"better", "worse", "more", "less", "than", "compared", "versus", "vs">>

plural(n, one, many) == IF n > 1 THEN many ELSE one

\* the two findings as alternatives: the second only when the first does not apply
inferredBiasesFirstOnly(absoluteStatements, comparisonStatements) ==
    IF Len(absoluteStatements) > 0
    THEN << [bias     |-> "Absolutist Thinking",
             evidence |-> ToString(Len(absoluteStatements)) \o " statement"
                            \o plural(Len(absoluteStatements), "", "s")
                            \o " using absolute language detected",
             impact   |-> "Extreme language may indicate emotionally-driven rather than balanced feedback"] >>
    ELSE IF Len(comparisonStatements) > 0
    THEN << [bias     |-> "Comparative Framing",
             evidence |-> ToString(Len(comparisonStatements)) \o " comparative statement"
                            \o plural(Len(comparisonStatements), "", "s") \o " found",
             impact   |-> "Users evaluate features relative to past experience or competitors rather than absolute quality"] >>
    ELSE <<>>

inferredBiasesFrom(absoluteStatements, comparisonStatements) ==
        (IF Len(absoluteStatements) > 0
         THEN << [bias     |-> "Absolutist Thinking",
                  evidence |-> ToString(Len(absoluteStatements)) \o " statement"
                                 \o plural(Len(absoluteStatements), "", "s")
                                 \o " using absolute language detected",
                  impact   |-> "Extreme language may indicate emotionally-driven rather than balanced feedback"] >>
         ELSE <<>>)
        \o
        (IF Len(comparisonStatements) > 0
         THEN << [bias     |-> "Comparative Framing",
                  evidence |-> ToString(Len(comparisonStatements)) \o " comparative statement"
                                 \o plural(Len(comparisonStatements), "", "s") \o " found",
                  impact   |-> "Users evaluate features relative to past experience or competitors rather than absolute quality"] >>
         ELSE <<>>)

\* sentences.filter(s => /\b(...)\b/i.test(s))
testing(sentences, words) ==
    LET hit(s) == testLiteral(words, s) IN SelectSeq(sentences, hit)

inferredBiases(sentences) ==
    inferredBiasesFrom(testing(sentences, absoluteWords), testing(sentences, comparisonWords))

\* if (cognitive_biases.length === 0) { ... }
orInferredBiases(explicit, sentences) ==
    IF Len(explicit) = 0 THEN inferredBiases(sentences) ELSE explicit

cognitiveBiases(lowerText, sentences) ==
    orInferredBiases(explicitBiases(lowerText), sentences)

(***************************************************************************)
(* Personas                                                                *)
(***************************************************************************)
countSentiment(emotional_patterns, kind) ==
    Cardinality({ i \in 1..Len(emotional_patterns) : emotional_patterns[i].sentiment = kind })

\* pain_points[0].issue: throws when pain_points is empty
firstIssue(pain_points) ==
    IF Len(pain_points) >= 1 THEN Ok(pain_points[1].issue) ELSE Throw

\* pain_points[0].issue read without asking whether there is a pain point
explorerFrustrationUnguarded(pain_points) == firstIssue(pain_points)

\* ...(pain_points.length > 0 ? [pain_points[0].issue] : ["Unclear value proposition"])
explorerFrustration(pain_points) ==
    IF Len(pain_points) > 0 THEN firstIssue(pain_points) ELSE Ok("Unclear value proposition")

\* .map(p => p.issue)
issuesOf(pain_points) == [i \in 1..Len(pain_points) |-> pain_points[i].issue]

\* the issues of the pain points, none when there is no pain point
topFrustrationsWithoutDefault(pain_points) == issuesOf(slice(pain_points, 2))

\* const topFrustrations = pain_points.length > 0 ? ... : [...]
topFrustrations(pain_points) ==
    IF Len(pain_points) > 0 THEN issuesOf(slice(pain_points, 2))
    ELSE <<"Unmet expectations", "Workflow friction">>

advocate(sentences, pain_points, emotional_patterns) ==
    [name  |-> "Alex the Advocate",
     role  |-> IF countSentiment(emotional_patterns, "positive")
                    > countSentiment(emotional_patterns, "negative")
               THEN "Enthusiastic power user" ELSE "Frustrated loyalist",
     goals |-> <<"Get work done efficiently", "Help improve the product", "Share with team">>,
     frustrations |-> topFrustrations(pain_points),
     quote |-> orElse(at(sentences, 1), "I use this daily but there's room to grow.")]

\* the quote taken below the midpoint: sentences[Math.ceil(length / 2) - 1]
explorerBelowMidpoint(sentences, frustration) ==
    [name  |-> "Jordan the Explorer",
     role  |-> "Curious newcomer evaluating options",
     goals |-> <<"Understand the product quickly", "Compare with alternatives",
                 "Find value fast">>,
     frustrations |-> <<"Steep learning curve", frustration>>,
     quote |-> orElse(at(sentences, (Len(sentences) + 1) \div 2),
                      "I just want it to be straightforward.")]

explorer(sentences, frustration) ==
    [name  |-> "Jordan the Explorer",
     role  |-> "Curious newcomer evaluating options",
     goals |-> <<"Understand the product quickly", "Compare with alternatives",
                 "Find value fast">>,
     frustrations |-> <<"Steep learning curve", frustration>>,
     quote |-> orElse(at(sentences, (Len(sentences) \div 2) + 1),
                      "I just want it to be straightforward.")]

personasWith(sentences, pain_points, emotional_patterns, frustration) ==
    IF frustration.threw THEN Throw
    ELSE Ok(<< advocate(sentences, pain_points, emotional_patterns),
               explorer(sentences, frustration.value) >>)

personas(sentences, pain_points, emotional_patterns) ==
    personasWith(sentences, pain_points, emotional_patterns, explorerFrustration(pain_points))

(***************************************************************************)
(* Recommendations                                                         *)
(***************************************************************************)
\* the priority taken from the pain point's severity
painRecommendationsBySeverity(pain_points) ==
    LET top == slice(pain_points, 3)
    IN  [i \in 1..Len(top) |->
            [priority |-> top[i].severity,
             category |-> top[i].issue,
             action   |-> "Address " \o toLowerCase(top[i].issue) \o " based on "
                            \o top[i].frequency \o " of user feedback",
             expected_impact |-> IF top[i].severity = "high"
                                 THEN "Significant improvement in user satisfaction"
                                 ELSE "Moderate positive impact on user experience"]]

painRecommendations(pain_points) ==
    LET top == slice(pain_points, 3)
    IN  [i \in 1..Len(top) |->
            [priority |-> IF i = 1 THEN "high" ELSE IF i = 2 THEN "medium" ELSE "low",
             category |-> top[i].issue,
             action   |-> "Address " \o toLowerCase(top[i].issue) \o " based on "
                            \o top[i].frequency \o " of user feedback",
             expected_impact |-> IF top[i].severity = "high"
                                 THEN "Significant improvement in user satisfaction"
                                 ELSE "Moderate positive impact on user experience"]]

\* the forEach over the negative emotions that are not Low, at most two
RECURSIVE addEmotionDriven(_, _)
addEmotionDriven(recommendations, emotions) ==
    IF emotions = <<>> THEN recommendations
    ELSE LET e == Head(emotions)
             present == \E i \in 1..Len(recommendations) :
                            includes(recommendations[i].category, e.emotion)
         IN  addEmotionDriven(
                 IF present THEN recommendations
                 ELSE Append(recommendations,
                        [priority |-> IF e.intensity = "High" THEN "high" ELSE "medium",
                         category |-> e.emotion \o " Mitigation",
                         action   |-> "Investigate and address triggers of user "
                                        \o toLowerCase(e.emotion) \o " in the product experience",
                         expected_impact |-> "Reduced negative sentiment and improved emotional engagement"]),
                 Tail(emotions))

\* the forEach over the first two themes
RECURSIVE addThemeDriven(_, _)
addThemeDriven(recommendations, themes) ==
    IF themes = <<>> THEN recommendations
    ELSE LET t == Head(themes)
             present == \E i \in 1..Len(recommendations) : recommendations[i].category = t.theme
         IN  addThemeDriven(
                 IF present THEN recommendations
                 ELSE Append(recommendations,
                        [priority |-> "medium",
                         category |-> t.theme,
                         action   |-> "Optimize the experience for " \o toLowerCase(t.user_segment)
                                        \o " around " \o toLowerCase(t.theme),
                         expected_impact |-> "Better alignment with observed user behavior patterns"]),
                 Tail(themes))

defaults == <<
    [priority |-> "high", category |-> "User Research",
     action   |-> "Conduct targeted user interviews to validate inferred patterns",
     expected_impact |-> "Stronger evidence base for product decisions"],
    [priority |-> "medium", category |-> "Feedback Loop",
     action   |-> "Implement structured in-app feedback collection to capture richer signals",
     expected_impact |-> "Better data quality for ongoing analysis"] >>

MinRecommendations == 2

\* every default whose category is not there is pushed, however many
\* recommendations there are by then
RECURSIVE addDefaultsAll(_, _)
addDefaultsAll(recommendations, ds) ==
    IF ds = <<>> THEN recommendations
    ELSE LET d == Head(ds)
             present == \E i \in 1..Len(recommendations) : recommendations[i].category = d.category
         IN  addDefaultsAll(IF ~present THEN Append(recommendations, d) ELSE recommendations,
                            Tail(ds))

\* defaults.forEach
RECURSIVE addDefaults(_, _)
addDefaults(recommendations, ds) ==
    IF ds = <<>> THEN recommendations
    ELSE LET d == Head(ds)
             present == \E i \in 1..Len(recommendations) : recommendations[i].category = d.category
         IN  addDefaults(
                 IF Len(recommendations) < MinRecommendations /\ ~present
                 THEN Append(recommendations, d) ELSE recommendations,
                 Tail(ds))

\* the recommendations left as they are, however few
ensureRecommendationsSkipped(recommendations) == recommendations

\* if (recommendations.length < 2) { ... }
ensureRecommendations(recommendations) ==
    IF Len(recommendations) < MinRecommendations THEN addDefaults(recommendations, defaults)
    ELSE recommendations

\* emotional_patterns.filter(e => e.sentiment === "negative" && e.intensity !== "Low")
negativeEmotions(emotional_patterns) ==
    LET urgent(e) == e.sentiment = "negative" /\ e.intensity # "Low"
    IN  SelectSeq(emotional_patterns, urgent)

recommendationsOf(pain_points, emotional_patterns, behavioral_themes) ==
    ensureRecommendations(
        addThemeDriven(
            addEmotionDriven(painRecommendations(pain_points),
                             slice(negativeEmotions(emotional_patterns), 2)),
            slice(behavioral_themes, 2)))

(***************************************************************************)
(* Executive summary                                                       *)
(***************************************************************************)
\* pain_points.length > 0 ? `The most critical issue is ...` : ""
criticalWith(pain_points, issue) ==
    IF issue.threw THEN Throw
    ELSE Ok("The most critical issue is \"" \o issue.value \o "\" with "
              \o pain_points[1].frequency \o ".")

criticalIssue(pain_points) ==
    IF Len(pain_points) > 0 THEN criticalWith(pain_points, firstIssue(pain_points))
    ELSE Ok("")

summaryWith(pain_points, emotional_patterns, behavioral_themes, cognitive_biases, recommendations, negativeCount, positiveCount, critical) ==
        IF critical.threw THEN Throw
        ELSE Ok(
          "Analysis of user feedback reveals " \o ToString(Len(pain_points))
          \o " key pain point" \o (IF Len(pain_points) # 1 THEN "s" ELSE "")
          \o " and " \o ToString(Len(emotional_patterns))
          \o " distinct emotional pattern" \o (IF Len(emotional_patterns) # 1 THEN "s" ELSE "")
          \o ". "
          \o (IF negativeCount > positiveCount
              THEN "Overall sentiment skews negative, suggesting urgent attention to core issues."
              ELSE IF positiveCount > negativeCount
              THEN "Overall sentiment is positive, with targeted areas for improvement."
              ELSE "Sentiment is mixed, indicating both strengths and areas needing attention.")
          \o " " \o critical.value \o " "
          \o (IF Len(cognitive_biases) > 0
              THEN ToString(Len(cognitive_biases)) \o " cognitive bias"
                     \o plural(Len(cognitive_biases), " was", "es were")
                     \o " detected, which should be considered when interpreting results."
              ELSE "")
          \o " " \o ToString(Len(behavioral_themes)) \o " behavioral theme"
          \o (IF Len(behavioral_themes) # 1 THEN "s were" ELSE " was")
          \o " identified"
          \o (IF Len(behavioral_themes) > 0
              THEN ", including \"" \o behavioral_themes[1].theme \o "\"" ELSE "")
          \o ". Two user personas were generated to guide product strategy, with "
          \o ToString(Len(recommendations)) \o " actionable recommendations prioritized by impact.")

executiveSummary(pain_points, emotional_patterns, behavioral_themes, cognitive_biases, recommendations) ==
    summaryWith(pain_points, emotional_patterns, behavioral_themes, cognitive_biases,
                recommendations,
                countSentiment(emotional_patterns, "negative"),
                countSentiment(emotional_patterns, "positive"),
                criticalIssue(pain_points))

(***************************************************************************)
(* analyzeUserFeedback: the Report it returns, or the error it throws, and *)
(* the lastIndex it leaves in the patterns of IMPLICIT_THEME_PATTERNS      *)
(***************************************************************************)
\* return { pain_points, ..., executive_summary }
returned(pain_points, emotional_patterns, themes, cognitive_biases, people, recommendations, summary) ==
    IF people.threw \/ summary.threw
    THEN [outcome |-> Throw, lastIndex |-> themes.lastIndex]
    ELSE [outcome |-> Ok([pain_points        |-> pain_points,
                          emotional_patterns |-> emotional_patterns,
                          behavioral_themes  |-> themes.themes,
                          cognitive_biases   |-> cognitive_biases,
                          personas           |-> people.value,
                          recommendations    |-> recommendations,
                          executive_summary  |-> summary.value]),
          lastIndex |-> themes.lastIndex]

\* from the recommendations on
recommended(pain_points, emotional_patterns, themes, cognitive_biases, people, recommendations) ==
    returned(pain_points, emotional_patterns, themes, cognitive_biases, people,
             recommendations,
             executiveSummary(pain_points, emotional_patterns, themes.themes,
                              cognitive_biases, recommendations))

\* from the personas on
detected(sentences, pain_points, emotional_patterns, themes, cognitive_biases) ==
    recommended(pain_points, emotional_patterns, themes, cognitive_biases,
                personas(sentences, pain_points, emotional_patterns),
                recommendationsOf(pain_points, emotional_patterns, themes.themes))

\* from the emotional patterns on; a throw in the pain points ends the call
\* before any pattern of IMPLICIT_THEME_PATTERNS is tested
afterPainPoints(sentences, lowerText, clusters, pain, li) ==
    IF pain.threw THEN [outcome |-> Throw, lastIndex |-> li]
    ELSE detected(sentences, pain.value, emotionalPatterns(sentences),
                  behavioralThemes(lowerText, sentences, clusters, li),
                  cognitiveBiases(lowerText, sentences))

\* from the clusters on
clustered(sentences, lowerText, clusters, li) ==
    afterPainPoints(sentences, lowerText, clusters, painPoints(sentences, clusters), li)

\* from the sentences on
analyzeSentences(sentences, lowerText, li) ==
    clustered(sentences, lowerText, clusterSentences(sentences, DefaultThreshold), li)

analyzeUserFeedback(rawText, li) ==
    analyzeSentences(extractSentences(rawText), toLowerCase(rawText), li)

(***************************************************************************)
(* The engine as a state machine: a text is put together from phrases and  *)
(* handed to analyzeUserFeedback.                                          *)
(***************************************************************************)
MaxPhrases == 2

\* pieces of feedback, each with the delimiters that end its sentences
Phrases == {
    "The app is slow. ",
    "Slow app again today! The app is slow. ",
    "The colour of my phone is poor. ",
    "it was bad yesterday\n",
    "the colour is poor? poor colour but ok. ",
    "I hate all of this. ",
    "Angry and fed up now! I hate all of this. ",
    "We work fast. ",
    "More paint for the team. ",
    "Never! ",
    "New. ",
    "Hi. " }

NoReport == [called |-> FALSE]
\* useState<AnalysisResult | null>(null): null is <<>>, a Report r is <<r>>
NoResult == <<>>
\* the page as it is first rendered, with no handleAnalyze under way
PageIdle ==
    /\ isAnalyzing = FALSE
    /\ result = NoResult
    /\ timers = <<>>
Returned(r) == [called |-> TRUE, threw |-> r.threw, value |-> r.value]

NoLastIndex == [i \in 1..Len(IMPLICIT_THEME_PATTERNS) |-> 0]
NoCalls == <<>>
NoSentences == <<>>
NoClusters == [called |-> FALSE]
NoSimilarity == [called |-> FALSE]
NotSegmented == [called |-> FALSE]
NotNormalized == [called |-> FALSE]

Init ==
    /\ input = ""
    /\ typed = 0
    /\ report = NoReport
    /\ lastIndex = NoLastIndex
    /\ calls = NoCalls
    /\ argSentences = NoSentences
    /\ argThreshold = DefaultThreshold
    /\ retClusters = NoClusters
    /\ retSimilarity = NoSimilarity
    /\ segmented = NotSegmented
    /\ normalized = NotNormalized
    /\ PageIdle

\* the caller extends the text of its next call; what was returned for the
\* text before is dropped
Type(p) ==
    /\ typed < MaxPhrases
    /\ input' = input \o p
    /\ typed' = typed + 1
    /\ report' = NoReport
    /\ segmented' = NotSegmented
    /\ UNCHANGED pageVars
    /\ UNCHANGED <<lastIndex, calls, argSentences, argThreshold, retClusters, retSimilarity,
                   normalized>>

\* the caller starts over
Clear ==
    /\ typed > 0
    /\ input' = ""
    /\ typed' = 0
    /\ report' = NoReport
    /\ segmented' = NotSegmented
    /\ UNCHANGED pageVars
    /\ UNCHANGED <<lastIndex, calls, argSentences, argThreshold, retClusters, retSimilarity,
                   normalized>>

\* a call ends with outcome r.outcome and leaves r.lastIndex in the patterns
Returns(r) ==
    /\ report' = Returned(r.outcome)
    /\ lastIndex' = r.lastIndex

\* report = analyzeUserFeedback(input)
Analyze ==
    /\ ~report.called
    /\ Returns(analyzeUserFeedback(input, lastIndex))
    /\ UNCHANGED pageVars
    /\ UNCHANGED <<input, typed, calls, argSentences, argThreshold, retClusters, retSimilarity,
                   segmented, normalized>>

Next ==
    \/ \E p \in Phrases : Type(p)
    \/ Clear
    \/ Analyze

Spec == Init /\ [][Next]_vars

(***************************************************************************)
(* Calls of analyzeUserFeedback one after the other, in any order: the     *)
(* RegExp objects of IMPLICIT_THEME_PATTERNS live across the calls.        *)
(***************************************************************************)
MaxCalls == 3

\* the worked example of three sentences
ThreeSentences == "The app is slow. I love the reporting feature. Support never answers tickets."

\* a text with keywords of four pain-point entries and a repeated negative emotion
FourPainPoints == "The app is slow, bugs and a price I hate. I hate it so much! "

\* two negative sentences of more than 60 characters that share no root and
\* differ only after the 57th character
LongSentences == "it is so, it is so, it is so, it is so, it is so, it is so, bad. it is so, it is so, it is so, it is so, it is so, it is so, poor. "

CallTexts == {
    "",
    "We work fast. ",
    "So fast, we work fast. ",
    "Let us try it out. We try and test it daily. ",
    "the colour is poor? poor colour but ok. ",
    ThreeSentences,
    FourPainPoints,
    LongSentences }

InitCalls ==
    /\ input = ""
    /\ typed = 0
    /\ report = NoReport
    /\ lastIndex = NoLastIndex
    /\ calls = NoCalls
    /\ argSentences = NoSentences
    /\ argThreshold = DefaultThreshold
    /\ retClusters = NoClusters
    /\ retSimilarity = NoSimilarity
    /\ segmented = NotSegmented
    /\ normalized = NotNormalized
    /\ PageIdle

\* the caller keeps what the call on text t returned
Records(t, r) ==
    /\ Returns(r)
    /\ calls' = Append(calls, [text |-> t, outcome |-> r.outcome])

\* one more call; calls remembers what each call was given and what it returned
Call(t) ==
    /\ Len(calls) < MaxCalls
    /\ input' = t
    /\ Records(t, analyzeUserFeedback(t, lastIndex))
    /\ UNCHANGED pageVars
    /\ UNCHANGED <<typed, argSentences, argThreshold, retClusters, retSimilarity,
                   segmented, normalized>>

NextCalls == \E t \in CallTexts : Call(t)

SpecCalls == InitCalls /\ [][NextCalls]_vars

(***************************************************************************)
(* semanticSimilarity and clusterSentences on their own                    *)
(***************************************************************************)
MaxSentences == 3

ClusterSentences == {
    "slow today",
    "the app is slow today",
    "app crashed, crashes daily now",
    "less",
    "it is" }

\* thresholds in [0, 1]: 0, 0.25, 0.35, 1
Thresholds == { [num |-> 0, den |-> 1], InferredThreshold, DefaultThreshold,
                [num |-> 1, den |-> 1] }

SentenceLists == UNION { [1..n -> ClusterSentences] : n \in 0..MaxSentences }

InitCluster ==
    /\ input = ""
    /\ typed = 0
    /\ report = NoReport
    /\ lastIndex = NoLastIndex
    /\ calls = NoCalls
    /\ argSentences \in SentenceLists
    /\ argThreshold \in Thresholds
    /\ retClusters = NoClusters
    /\ retSimilarity = NoSimilarity
    /\ segmented = NotSegmented
    /\ normalized = NotNormalized
    /\ PageIdle

\* retClusters = clusterSentences(argSentences, argThreshold); positions is the
\* same partition by position (what the loop keeps in "assigned")
Cluster ==
    /\ ~retClusters.called /\ ~retSimilarity.called
    /\ retClusters' = [called    |-> TRUE,
                       clusters  |-> clusterSentences(argSentences, argThreshold),
                       positions |-> clusterIndices(argSentences, argThreshold)]
    /\ UNCHANGED pageVars
    /\ UNCHANGED <<input, typed, report, lastIndex, calls, argSentences, argThreshold,
                   retSimilarity, segmented, normalized>>

\* retSimilarity = semanticSimilarity(a, b) for two of the sentences
Similarity(i, j) ==
    /\ ~retClusters.called /\ ~retSimilarity.called
    /\ retSimilarity' = [called |-> TRUE, a |-> argSentences[i], b |-> argSentences[j],
                         value |-> semanticSimilarity(argSentences[i], argSentences[j])]
    /\ UNCHANGED pageVars
    /\ UNCHANGED <<input, typed, report, lastIndex, calls, argSentences, argThreshold,
                   retClusters, segmented, normalized>>

NextCluster ==
    \/ Cluster
    \/ \E i, j \in 1..Len(argSentences) : Similarity(i, j)

SpecCluster == InitCluster /\ [][NextCluster]_vars

(***************************************************************************)
(* extractSentences on its own, on texts put together from fragments: a    *)
(* piece of 10 characters, one of 11, one with white space around it, an   *)
(* empty one and a blank one, each followed by a run of delimiters or by   *)
(* nothing.                                                                *)
(***************************************************************************)
Fragments ==
    { piece \o run : piece \in {"It is slow", "App is slow", " \tWe work fast ", "", " "},
                     run \in {"", ".", "?!", "\n"} }

\* segmented = extractSentences(input)
Segment ==
    /\ ~segmented.called
    /\ segmented' = [called |-> TRUE, sentences |-> extractSentences(input)]
    /\ UNCHANGED pageVars
    /\ UNCHANGED <<input, typed, report, lastIndex, calls, argSentences, argThreshold,
                   retClusters, retSimilarity, normalized>>

NextSegment ==
    \/ \E f \in Fragments : Type(f)
    \/ Segment

SpecSegment == Init /\ [][NextSegment]_vars

(***************************************************************************)
(* normalizeToken on its own, on words made of a stem and up to            *)
(* MaxSuffixes of the suffixes.                                            *)
(***************************************************************************)
MaxSuffixes == 2

\* the words made of one of the stems and n of the suffixes at most
RECURSIVE Suffixed(_)
Suffixed(n) ==
    IF n = 0 THEN {"", "car", "class"}
    ELSE Suffixed(n - 1) \cup { w \o Suffixes[k] : w \in Suffixed(n - 1), k \in 1..Len(Suffixes) }

\* normalized = normalizeToken(word)
Normalize(word) ==
    /\ ~normalized.called
    /\ normalized' = [called |-> TRUE, word |-> word, root |-> normalizeToken(word)]
    /\ UNCHANGED pageVars
    /\ UNCHANGED <<input, typed, report, lastIndex, calls, argSentences, argThreshold,
                   retClusters, retSimilarity, segmented>>

NextTokens == \E word \in Suffixed(MaxSuffixes) : Normalize(word)

SpecTokens == Init /\ [][NextTokens]_vars

(***************************************************************************)
(* The page: the text of AnalysisInput, its Analyze button, and            *)
(* handleAnalyze of Index, which waits for a timer between its two halves. *)
(* input is the state "text" of AnalysisInput.                             *)
(***************************************************************************)
MinWords == 5

\* text.trim() ? text.trim().split(/\s+/).length : 0
wordCountOf(trimmed) == IF trimmed # "" THEN Len(split(trimmed, WhiteSpace)) ELSE 0
wordCount(s) == wordCountOf(trim(s))

\* the button disabled by the word count alone
buttonDisabledByWords(words, analyzing) == words < MinWords

\* disabled={wordCount < 5 || isAnalyzing}
buttonDisabled(words, analyzing) == words < MinWords \/ analyzing

\* the text read from the input when the timer fires
textAtTimer(passed, current) == current

\* analyzeUserFeedback(text): text is the parameter of handleAnalyze, bound
\* when the button was clicked
textAnalyzed(passed, current) == passed

PageTexts == {
    "",
    "Hi. ",
    "We work fast. ",
    "So fast, we work fast. ",
    "the colour is poor? poor colour but ok. ",
    "Let us try it out. We try and test it daily. ",
    ThreeSentences,
    FourPainPoints,
    LongSentences }

\* setText(t): typing, Paste, Upload, a dropped file or Sample Data
SetText(t) ==
    /\ input # t
    /\ input' = t
    /\ UNCHANGED <<typed, report, lastIndex, calls, argSentences, argThreshold, retClusters,
                   retSimilarity, segmented, normalized>>
    /\ UNCHANGED pageVars

\* a click on the enabled button: onAnalyze(text) runs handleAnalyze up to its await
ClickAnalyze ==
    /\ ~buttonDisabled(wordCount(input), isAnalyzing)
    /\ isAnalyzing' = TRUE
    /\ result' = NoResult
    /\ timers' = Append(timers, input)
    /\ UNCHANGED <<input, typed, report, lastIndex, calls, argSentences, argThreshold,
                   retClusters, retSimilarity, segmented, normalized>>

\* the rest of handleAnalyze once analyzeUserFeedback has ended with r: an
\* exception leaves the two setters uncalled
Resumes(r) ==
    /\ lastIndex' = r.lastIndex
    /\ result' = IF r.outcome.threw THEN result ELSE <<r.outcome.value>>
    /\ isAnalyzing' = IF r.outcome.threw THEN isAnalyzing ELSE FALSE

\* analyzeUserFeedback on each text of the page with the patterns as they are
\* at first, computed once
Analyses == [t \in PageTexts |-> analyzeUserFeedback(t, NoLastIndex)]

\* const analysis = analyzeUserFeedback(text)
analysis(t, li) == IF li = NoLastIndex THEN Analyses[t] ELSE analyzeUserFeedback(t, li)

\* the timer of the oldest waiting handleAnalyze fires
TimerFires ==
    /\ timers # <<>>
    /\ Resumes(analysis(textAnalyzed(Head(timers), input), lastIndex))
    /\ timers' = Tail(timers)
    /\ UNCHANGED <<input, typed, report, calls, argSentences, argThreshold, retClusters,
                   retSimilarity, segmented, normalized>>

NextPage ==
    \/ \E t \in PageTexts : SetText(t)
    \/ ClickAnalyze
    \/ TimerFires

SpecPage == Init /\ [][NextPage]_vars

\* setTimeout(r, 1500): a timer that was set fires
SpecPageLive == SpecPage /\ WF_vars(TimerFires)

(***************************************************************************)
(* Properties of the Report                                                *)
(***************************************************************************)
\* C1: every Report analyzeUserFeedback returns, for any text (the empty text
\* and the texts without a sentence included), holds at least 2 behavioral themes.
AtLeastTwoThemes ==
    (report.called /\ ~report.threw) => Len(report.value.behavioral_themes) >= 2

\* a Report for a text without a sentence: its two themes are the two fallbacks
TwoThemesWithoutSentences ==
    /\ report.called /\ ~report.threw
    /\ Len(extractSentences(input)) = 0
    /\ Len(report.value.behavioral_themes) = 2
    /\ report.value.behavioral_themes[2].theme = "Feature Exploration"

\* C2: every Report holds at least 2 recommendations, whatever the numbers of
\* pain points, emotional patterns and themes are.
AtLeastTwoRecommendations ==
    (report.called /\ ~report.threw) => Len(report.value.recommendations) >= 2

\* a Report without pain points whose themes gave one recommendation only: the
\* second one is a default
DefaultRecommendationAdded ==
    /\ report.called /\ ~report.threw
    /\ Len(report.value.pain_points) = 0
    /\ Len(report.value.recommendations) = 2
    /\ report.value.recommendations[2].category = "User Research"

\* C3: analyzeUserFeedback never throws: for every text, the empty one included,
\* it returns a Report with the seven fields pain_points, emotional_patterns,
\* behavioral_themes, cognitive_biases, personas, recommendations and
\* executive_summary, and with exactly two personas.
NeverFails ==
    report.called =>
        /\ ~report.threw
        /\ DOMAIN report.value = {"pain_points", "emotional_patterns", "behavioral_themes",
                                  "cognitive_biases", "personas", "recommendations",
                                  "executive_summary"}
        /\ Len(report.value.personas) = 2

\* the Report of the empty text: no pain point for the personas and the summary
\* to read
EmptyTextReported ==
    /\ report.called /\ ~report.threw
    /\ input = ""
    /\ Len(report.value.pain_points) = 0
    /\ report.value.personas[2].frustrations = <<"Steep learning curve", "Unclear value proposition">>

\* C4: analyzeUserFeedback is deterministic: two calls with the same text, in any
\* order and with any other calls in between, return the same outcome, field for
\* field; what a call returns does not depend on the calls before it.
SameTextSameReport ==
    \A i, j \in 1..Len(calls) :
        calls[i].text = calls[j].text => calls[i].outcome = calls[j].outcome

\* the same text analysed twice with a call on another text in between, where
\* a pattern of IMPLICIT_THEME_PATTERNS matched in all three calls
SameTextCalledAgain ==
    /\ Len(calls) = 3
    /\ calls[1].text = calls[3].text
    /\ calls[2].text # calls[1].text
    /\ \A i \in 1..3 :
          /\ ~calls[i].outcome.threw
          /\ calls[i].outcome.value.behavioral_themes[1].user_segment
                \in { IMPLICIT_THEME_PATTERNS[k].user_segment : k \in 1..Len(IMPLICIT_THEME_PATTERNS) }

(***************************************************************************)
(* Properties of clusterSentences and semanticSimilarity                   *)
(***************************************************************************)
\* the places <<c, m>> of the returned clusters that hold input position p
PlacesOf(p) ==
    { cm \in { <<c, m>> : c \in 1..Len(retClusters.positions), m \in 1..Len(argSentences) } :
        /\ cm[2] <= Len(retClusters.positions[cm[1]])
        /\ retClusters.positions[cm[1]][cm[2]] = p }

\* C5: for every threshold in [0, 1] clusterSentences returns a partition of its
\* input: every input position is in exactly one cluster, no cluster is empty,
\* and the sizes of the clusters add up to the number of input sentences (also
\* when equal sentences occur more than once in the input).
ClustersPartitionInput ==
    retClusters.called =>
        /\ Len(retClusters.clusters) = Len(retClusters.positions)
        /\ \A c \in 1..Len(retClusters.clusters) :
              /\ Len(retClusters.clusters[c]) > 0
              /\ Len(retClusters.clusters[c]) = Len(retClusters.positions[c])
              /\ \A m \in 1..Len(retClusters.clusters[c]) :
                    /\ retClusters.positions[c][m] \in 1..Len(argSentences)
                    /\ retClusters.clusters[c][m] = argSentences[retClusters.positions[c][m]]
        /\ \A p \in 1..Len(argSentences) : Cardinality(PlacesOf(p)) = 1
        /\ Sum([c \in 1..Len(retClusters.clusters) |-> Len(retClusters.clusters[c])])
              = Len(argSentences)

\* three sentences, two of them equal, clustered into a cluster of two and a
\* cluster of one
EqualSentencesClustered ==
    /\ retClusters.called
    /\ Len(argSentences) = 3
    /\ argSentences[1] = argSentences[3]
    /\ argSentences[1] # argSentences[2]
    /\ Len(retClusters.clusters) = 2
    /\ Len(retClusters.clusters[1]) = 2

\* C6: semanticSimilarity is symmetric: similarity(a, b) = similarity(b, a) for
\* all sentences a and b, also when their sets of root forms differ in size.
SimilaritySymmetric ==
    retSimilarity.called =>
        retSimilarity.value = semanticSimilarity(retSimilarity.b, retSimilarity.a)

\* two sentences with sets of root forms of different sizes that overlap
MixedSizesCompared ==
    /\ retSimilarity.called
    /\ Cardinality(rootForms(retSimilarity.a)) > Cardinality(rootForms(retSimilarity.b))
    /\ Cardinality(rootForms(retSimilarity.b)) > 0
    /\ retSimilarity.value.num > 0

\* C7: semanticSimilarity is reflexive: similarity(a, a) is exactly 1 for every
\* sentence a whose set of root forms is not empty, also when the empty string
\* is one of the root forms.
SimilarityReflexive ==
    (retSimilarity.called /\ retSimilarity.a = retSimilarity.b
                          /\ rootForms(retSimilarity.a) # {}) =>
        /\ retSimilarity.value.den > 0
        /\ retSimilarity.value.num = retSimilarity.value.den

\* a sentence compared with itself whose only root form is the empty string
EmptyRootCompared ==
    /\ retSimilarity.called
    /\ retSimilarity.a = retSimilarity.b
    /\ rootForms(retSimilarity.a) = {""}
    /\ retSimilarity.value = [num |-> 1, den |-> 1]

(***************************************************************************)
(* Properties of the pain points, emotions and biases of the Report        *)
(***************************************************************************)
Reported == report.called /\ ~report.threw

\* level is low for a count of 1, medium for 2, high for 3 or more, and only then
Tiered(n, level, low, medium, high) ==
    /\ (level = low) <=> (n = 1)
    /\ (level = medium) <=> (n = 2)
    /\ (level = high) <=> (n >= 3)

\* the severity of pain point p follows the mention count its frequency shows
PainTiered(p) ==
    \E n \in 1..Len(extractSentences(input)) :
        /\ p.frequency = mentions(n)
        /\ Tiered(n, p.severity, "low", "medium", "high")

\* the count behind emotional pattern e: the sentences that match the keywords
\* of its entry of EMOTION_KEYWORDS, or the sentences of its sentiment
EmotionCount(e) ==
    IF e.emotion = "Implicit Dissatisfaction"
    THEN Len(withSentiment(extractSentences(input), "negative"))
    ELSE IF e.emotion = "Implicit Approval"
    THEN Len(withSentiment(extractSentences(input), "positive"))
    ELSE IF e.emotion = "Neutral Engagement"
    THEN Len(withSentiment(extractSentences(input), "neutral"))
    ELSE Len(matchingSentences(extractSentences(input),
             EMOTION_KEYWORDS[CHOOSE k \in 1..Len(EMOTION_KEYWORDS) :
                                 EMOTION_KEYWORDS[k].emotion = e.emotion].keywords))

EmotionTiered(e) == Tiered(EmotionCount(e), e.intensity, "Low", "Medium", "High")

\* C8 as stated: every pain point of a Report, explicit or inferred, has severity
\* low exactly for a mention count of 1, medium for 2 and high for 3 or more, and
\* every emotional pattern has its intensity by the same thresholds on its count.
AllFindingsTiered ==
    Reported =>
        /\ \A i \in 1..Len(report.value.pain_points) : PainTiered(report.value.pain_points[i])
        /\ \A i \in 1..Len(report.value.emotional_patterns) :
              EmotionTiered(report.value.emotional_patterns[i])

\* C8 as amended: every pain point of a Report, explicit or inferred, has severity
\* low exactly for a mention count of 1, medium for 2 and high for 3 or more;
\* every emotional pattern but "Neutral Engagement" has its intensity by the same
\* thresholds on its count, and "Neutral Engagement" has intensity Low whatever
\* the number of neutral sentences.
FindingsTieredButNeutral ==
    Reported =>
        /\ \A i \in 1..Len(report.value.pain_points) : PainTiered(report.value.pain_points[i])
        /\ \A i \in 1..Len(report.value.emotional_patterns) :
              IF report.value.emotional_patterns[i].emotion = "Neutral Engagement"
              THEN report.value.emotional_patterns[i].intensity = "Low"
              ELSE EmotionTiered(report.value.emotional_patterns[i])

\* a Report with a pain point of severity high and an emotional pattern of
\* intensity High
HighSeverityAndIntensity ==
    /\ Reported
    /\ \E i \in 1..Len(report.value.pain_points) : report.value.pain_points[i].severity = "high"
    /\ \E i \in 1..Len(report.value.emotional_patterns) :
          report.value.emotional_patterns[i].intensity = "High"

\* the pain points before any sort, in the order the code produces them
InputOrder ==
    IF Len(mappedPainPoints(extractSentences(input),
                            clusterSentences(extractSentences(input), DefaultThreshold))) > 0
    THEN mappedPainPoints(extractSentences(input),
                          clusterSentences(extractSentences(input), DefaultThreshold))
    ELSE inferredPainPoints(extractSentences(input)).value

\* C9: in every Report pain_points is sorted by severity, high before medium
\* before low, and pain points of equal severity keep their input order; on
\* every path, the inferred fallback included.
PainPointsSortedStable ==
    Reported =>
        \A i, j \in 1..Len(report.value.pain_points) :
            i < j =>
                /\ sevOrder[report.value.pain_points[i].severity]
                      >= sevOrder[report.value.pain_points[j].severity]
                /\ report.value.pain_points[i].severity = report.value.pain_points[j].severity
                      => \E a, b \in 1..Len(InputOrder) :
                            /\ a < b
                            /\ InputOrder[a] = report.value.pain_points[i]
                            /\ InputOrder[b] = report.value.pain_points[j]

InferredIssue(p) == SubSeq(p.issue, 1, 16) = "Inferred Issue: "
TaxonomyIssue(p) == \E k \in 1..Len(PAIN_KEYWORDS) : PAIN_KEYWORDS[k].issue = p.issue
ImplicitEmotion(e) ==
    e.emotion \in {"Implicit Dissatisfaction", "Implicit Approval", "Neutral Engagement"}
TaxonomyEmotion(e) == \E k \in 1..Len(EMOTION_KEYWORDS) : EMOTION_KEYWORDS[k].emotion = e.emotion
InferredBias(b) == b.bias \in {"Absolutist Thinking", "Comparative Framing"}
TaxonomyBias(b) == \E k \in 1..Len(BIAS_PATTERNS) : BIAS_PATTERNS[k].bias = b.bias

\* C10: for pain points, emotions and biases the fallback stage runs only when
\* the explicit stage found nothing: no Report holds an "Inferred Issue" with a
\* taxonomy pain point, an implicit emotion with a taxonomy emotion, or an
\* inferred bias with a taxonomy bias.
FallbackOnlyWithoutExplicit ==
    Reported =>
        /\ ~ \E i, j \in 1..Len(report.value.pain_points) :
                /\ InferredIssue(report.value.pain_points[i])
                /\ TaxonomyIssue(report.value.pain_points[j])
        /\ ~ \E i, j \in 1..Len(report.value.emotional_patterns) :
                /\ ImplicitEmotion(report.value.emotional_patterns[i])
                /\ TaxonomyEmotion(report.value.emotional_patterns[j])
        /\ ~ \E i, j \in 1..Len(report.value.cognitive_biases) :
                /\ InferredBias(report.value.cognitive_biases[i])
                /\ TaxonomyBias(report.value.cognitive_biases[j])
        /\ (\E i \in 1..Len(report.value.pain_points) :
                InferredIssue(report.value.pain_points[i]))
              => Len(explicitPainPoints(extractSentences(input),
                        clusterSentences(extractSentences(input), DefaultThreshold))) = 0
        /\ (\E i \in 1..Len(report.value.emotional_patterns) :
                ImplicitEmotion(report.value.emotional_patterns[i]))
              => Len(explicitEmotions(extractSentences(input))) = 0
        /\ (\E i \in 1..Len(report.value.cognitive_biases) :
                InferredBias(report.value.cognitive_biases[i]))
              => Len(explicitBiases(toLowerCase(input))) = 0

\* a Report whose pain points come from the fallback and whose biases come
\* from the taxonomy
InferredPainWithTaxonomyBias ==
    /\ Reported
    /\ \E i \in 1..Len(report.value.pain_points) : InferredIssue(report.value.pain_points[i])
    /\ \E i \in 1..Len(report.value.cognitive_biases) : TaxonomyBias(report.value.cognitive_biases[i])

(***************************************************************************)
(* A worked example                                                        *)
(***************************************************************************)
ThreeSentencesReported == Reported /\ input = ThreeSentences

HasPainPoint(issue, frequency, severity) ==
    \E i \in 1..Len(report.value.pain_points) :
        /\ report.value.pain_points[i].issue = issue
        /\ report.value.pain_points[i].frequency = frequency
        /\ report.value.pain_points[i].severity = severity

\* C11: the Report of "The app is slow. I love the reporting feature. Support
\* never answers tickets." holds the pain points "Performance & Speed Issues"
\* and "Customer Support Quality", each with 1 mention and severity low, the
\* emotion "Delight" with sentiment positive and the bias "Frequency Illusion";
\* no two of its three sentences reach the similarity 0.35, so that no cluster
\* adds to a mention count.
ThreeSentencesFindings ==
    ThreeSentencesReported =>
        /\ HasPainPoint("Performance & Speed Issues", "1 mention", "low")
        /\ HasPainPoint("Customer Support Quality", "1 mention", "low")
        /\ Len(extractSentences(input)) = 3
        /\ \A i, j \in 1..Len(extractSentences(input)) :
                i # j => ~GE(semanticSimilarity(extractSentences(input)[i],
                                                extractSentences(input)[j]),
                             DefaultThreshold)
        /\ \E i \in 1..Len(report.value.emotional_patterns) :
                /\ report.value.emotional_patterns[i].emotion = "Delight"
                /\ report.value.emotional_patterns[i].sentiment = "positive"
        /\ \E i \in 1..Len(report.value.cognitive_biases) :
                report.value.cognitive_biases[i].bias = "Frequency Illusion"

\* the call on the three sentences, made after other calls
ThreeSentencesAnalyzed ==
    /\ ThreeSentencesReported
    /\ Len(calls) > 1
    /\ Len(report.value.pain_points) = 4

(***************************************************************************)
(* Texts without a sentence                                                *)
(***************************************************************************)
ZeroSentences == Reported /\ Len(extractSentences(input)) = 0

StartsWith(s, prefix) == Len(s) >= Len(prefix) /\ SubSeq(s, 1, Len(prefix)) = prefix

\* C12: the Report of a text that yields zero sentences (the empty text, "Hi.")
\* has 0 pain points and 0 emotional patterns, its executive summary reports
\* 0 pain points and 0 emotional patterns, and the minimum counts hold by the
\* paths that need no sentence: at least 2 themes, each a whole-text keyword
\* theme or a final fallback, the 2 personas with their default frustrations and
\* quotes, and at least 2 recommendations, each for a theme or a default.
ZeroSentencesDefaulted ==
    ZeroSentences =>
        /\ report.value.pain_points = <<>>
        /\ report.value.emotional_patterns = <<>>
        /\ StartsWith(report.value.executive_summary,
              "Analysis of user feedback reveals 0 key pain points and 0 distinct emotional patterns. ")
        /\ Len(report.value.behavioral_themes) >= 2
        /\ \A i \in 1..Len(report.value.behavioral_themes) :
              report.value.behavioral_themes[i]
                 \in Range(fallbacks) \cup Range(explicitThemes(toLowerCase(input)))
        /\ Len(report.value.personas) = 2
        /\ report.value.personas[1].frustrations = <<"Unmet expectations", "Workflow friction">>
        /\ report.value.personas[1].quote = "I use this daily but there's room to grow."
        /\ report.value.personas[2].frustrations
              = <<"Steep learning curve", "Unclear value proposition">>
        /\ report.value.personas[2].quote = "I just want it to be straightforward."
        /\ Len(report.value.recommendations) >= 2
        /\ \A i \in 1..Len(report.value.recommendations) :
              report.value.recommendations[i].category
                 \in themeNames(report.value.behavioral_themes)
                       \cup { defaults[k].category : k \in 1..Len(defaults) }

\* the Report of "Hi. ": both themes are final fallbacks
ShortFragmentReported ==
    /\ ZeroSentences
    /\ input = "Hi. "
    /\ report.value.behavioral_themes = fallbacks

(***************************************************************************)
(* State shared by the calls                                               *)
(***************************************************************************)
\* the objects that outlive a call: the four tables, their entries, and the
\* lists of words of the entries
TableEntries ==
    Range(PAIN_KEYWORDS) \cup Range(EMOTION_KEYWORDS) \cup Range(BIAS_PATTERNS)
       \cup Range(IMPLICIT_THEME_PATTERNS)
TableLists == {PAIN_KEYWORDS, EMOTION_KEYWORDS, BIAS_PATTERNS, IMPLICIT_THEME_PATTERNS}
TableWordLists ==
    { e.keywords : e \in Range(PAIN_KEYWORDS) \cup Range(EMOTION_KEYWORDS) \cup Range(BIAS_PATTERNS) }
       \cup { e.alternatives : e \in Range(IMPLICIT_THEME_PATTERNS) }

\* the objects of a Report r: r, its six arrays, their elements, and the arrays
\* of strings in the elements
ReportEntries(r) ==
    {r} \cup Range(r.pain_points) \cup Range(r.emotional_patterns)
        \cup Range(r.behavioral_themes) \cup Range(r.cognitive_biases)
        \cup Range(r.personas) \cup Range(r.recommendations)
ReportLists(r) ==
    {r.pain_points, r.emotional_patterns, r.behavioral_themes, r.cognitive_biases,
     r.personas, r.recommendations}
ReportWordLists(r) ==
    { r.pain_points[i].quotes : i \in 1..Len(r.pain_points) }
       \cup { r.personas[i].goals : i \in 1..Len(r.personas) }
       \cup { r.personas[i].frustrations : i \in 1..Len(r.personas) }

\* C13: the calls share no mutable state. After any sequence of calls (a call
\* runs to its end before the next starts) the state of the regular expressions
\* of the tables is what it was at the start, and no object of a returned
\* Report is an object that outlives the call: none is an entry, a list or a
\* list of words of a table, so that no Report can reach a table or, through
\* one, the Report of another call.
NoSharedState ==
    /\ lastIndex = NoLastIndex
    /\ \A i \in 1..Len(calls) :
          ~calls[i].outcome.threw =>
              /\ ReportEntries(calls[i].outcome.value) \cap TableEntries = {}
              /\ ReportLists(calls[i].outcome.value) \cap TableLists = {}
              /\ ReportWordLists(calls[i].outcome.value) \cap TableWordLists = {}

\* a third call whose Report holds a theme taken from IMPLICIT_THEME_PATTERNS,
\* after its patterns were tested in the calls before
ThemeFromTableAfterCalls ==
    /\ Len(calls) = 3
    /\ \A i \in 1..3 :
          /\ ~calls[i].outcome.threw
          /\ \E k \in 1..Len(calls[i].outcome.value.behavioral_themes) :
                calls[i].outcome.value.behavioral_themes[k].user_segment = "Exploratory Users"

(***************************************************************************)
(* The segmenter                                                           *)
(***************************************************************************)
\* the positions of the delimiters of s, with the two ends of s
DelimiterPositions(s) ==
    {0, Len(s) + 1} \cup { i \in 1..Len(s) : SubSeq(s, i, i) \in {".", "!", "?", "\n"} }

\* the pairs of neighbouring delimiter positions: between them lies a piece
PieceBounds(s) ==
    { g \in DelimiterPositions(s) \X DelimiterPositions(s) :
         /\ g[1] < g[2]
         /\ \A i \in (g[1] + 1)..(g[2] - 1) : i \notin DelimiterPositions(s) }

\* the positions of a piece that hold no white space
Inked(s, g) == { i \in (g[1] + 1)..(g[2] - 1) : SubSeq(s, i, i) \notin {" ", "\n", "\t", "\r"} }
First(S) == CHOOSE x \in S : \A y \in S : x <= y
Last(S) == CHOOSE x \in S : \A y \in S : x >= y

\* the pieces that are longer than 10 characters once trimmed
LongPieces(s) ==
    { g \in PieceBounds(s) : Inked(s, g) # {} /\ Last(Inked(s, g)) - First(Inked(s, g)) + 1 > 10 }

\* C14: extractSentences returns exactly the trimmed pieces between the maximal
\* runs of '.', '!', '?' and newline that are longer than 10 characters, in the
\* order of the text: every sentence returned is longer than 10 characters,
\* neither starts nor ends with white space and holds no delimiter, and a
\* piece of 10 characters or less is never returned.
SegmenterOutput ==
    segmented.called =>
        /\ Len(segmented.sentences) = Cardinality(LongPieces(input))
        /\ \A g \in LongPieces(input) :
              segmented.sentences[1 + Cardinality({ h \in LongPieces(input) : h[1] < g[1] })]
                 = SubSeq(input, First(Inked(input, g)), Last(Inked(input, g)))
        /\ \A k \in 1..Len(segmented.sentences) :
              /\ Len(segmented.sentences[k]) > 10
              /\ SubSeq(segmented.sentences[k], 1, 1) \notin {" ", "\n", "\t", "\r"}
              /\ SubSeq(segmented.sentences[k], Len(segmented.sentences[k]),
                        Len(segmented.sentences[k])) \notin {" ", "\n", "\t", "\r"}
              /\ CharsOf(segmented.sentences[k]) \cap {".", "!", "?", "\n"} = {}

\* a piece of 10 characters dropped, and a piece with white space around it
\* returned trimmed
ShortPieceDropped ==
    /\ segmented.called
    /\ input = "It is slow?! \tWe work fast "
    /\ segmented.sentences = <<"We work fast">>

(***************************************************************************)
(* The token normalizer                                                    *)
(***************************************************************************)
EndsWith(word, suffix) ==
    Len(word) >= Len(suffix) /\ SubSeq(word, Len(word) - Len(suffix) + 1, Len(word)) = suffix

\* word without the first suffix of the list it ends with; word when it ends
\* with none
WithoutFirstSuffix(word) ==
    IF \E k \in 1..Len(Suffixes) : EndsWith(word, Suffixes[k])
    THEN SubSeq(word, 1, Len(word) - Len(Suffixes[First({ k \in 1..Len(Suffixes) :
                                                           EndsWith(word, Suffixes[k]) })]))
    ELSE word

\* C15: normalizeToken strips at most one trailing suffix: it removes the first
\* suffix of the list ing, tion, ..., es, s that the token ends with and nothing
\* more, and returns a token that ends with none of them unchanged.
AtMostOneSuffixStripped ==
    normalized.called => normalized.root = WithoutFirstSuffix(normalized.word)

(***************************************************************************)
(* The similarity of two sentences and the clusters                        *)
(***************************************************************************)
\* the normalized tokens of a sentence, each one counted once
RootsOf(tokens) == { normalizeToken(tokens[i]) : i \in 1..Len(tokens) }
RootSet(text) == RootsOf(getTokens(text))
Smaller(m, n) == IF m <= n THEN m ELSE n

\* value is 0 when A or B is empty, and |A \cap B| / min(|A|, |B|) otherwise
OverlapOverSmaller(value, A, B) ==
    /\ value.den > 0
    /\ 0 <= value.num
    /\ value.num <= value.den
    /\ (A = {} \/ B = {}) => value.num = 0
    /\ (A # {} /\ B # {})
          => value.num * Smaller(Cardinality(A), Cardinality(B))
                = Cardinality(A \cap B) * value.den

\* C16: semanticSimilarity(a, b) lies in [0, 1]; it is 0 whenever the set of
\* normalized tokens of a or of b is empty, and otherwise it is the number of
\* root forms common to both sets divided by the size of the smaller set, a
\* root form that occurs twice in a sentence counted once.
SimilarityIsOverlapOverSmaller ==
    retSimilarity.called =>
        OverlapOverSmaller(retSimilarity.value, RootSet(retSimilarity.a), RootSet(retSimilarity.b))

\* a sentence with 5 tokens and 4 root forms compared with a sentence of 2
\* root forms: no common root form
RepeatedRootCompared ==
    /\ retSimilarity.called
    /\ Len(getTokens(retSimilarity.a)) = 5
    /\ Cardinality(RootSet(retSimilarity.a)) = 4
    /\ Cardinality(RootSet(retSimilarity.b)) = 2
    /\ retSimilarity.value = [num |-> 0, den |-> 2]

\* C17: in every cluster clusterSentences returns, the first member is the seed,
\* the earliest input sentence that no cluster before it holds; the members are
\* in input order; and every other member has a similarity to the seed of at
\* least the threshold, the threshold itself included.  (Members are compared
\* with the seed only: two members that are not the seed may be less similar
\* to each other than the threshold, as in DissimilarMembersClustered.)
MembersSimilarToSeed ==
    retClusters.called =>
        \A c \in 1..Len(retClusters.positions) :
            /\ retClusters.positions[c][1]
                  = First({ p \in 1..Len(argSentences) :
                              \A d \in 1..(c - 1) : \A m \in 1..Len(retClusters.positions[d]) :
                                  retClusters.positions[d][m] # p })
            /\ retClusters.clusters[c][1] = argSentences[retClusters.positions[c][1]]
            /\ \A m \in 2..Len(retClusters.positions[c]) :
                  /\ retClusters.positions[c][m - 1] < retClusters.positions[c][m]
                  /\ retClusters.clusters[c][m] = argSentences[retClusters.positions[c][m]]
                  /\ GE(semanticSimilarity(retClusters.clusters[c][1], retClusters.clusters[c][m]),
                        argThreshold)

\* one cluster of a seed and two more members: each of the two is similar to
\* the seed, one of them exactly at the threshold, and they are less similar
\* to each other than the threshold
DissimilarMembersClustered ==
    /\ retClusters.called
    /\ Len(retClusters.clusters) = 1
    /\ Len(retClusters.clusters[1]) = 3
    /\ ~GE(semanticSimilarity(retClusters.clusters[1][2], retClusters.clusters[1][3]),
           argThreshold)
    /\ GE(argThreshold,
          semanticSimilarity(retClusters.clusters[1][1], retClusters.clusters[1][3]))

(***************************************************************************)
(* The mention count of a pain point                                       *)
(***************************************************************************)
\* the sentences in lower case
LowerAll(sentences) == <<>> \o [i \in 1..Len(sentences) |-> toLowerCase(sentences[i])]

\* the positions of the sentences, given in lower case, that hold a keyword of entry p
MatchingPositions(p, lowered) ==
    { i \in 1..Len(lowered) : \E k \in 1..Len(p.keywords) : includes(lowered[i], p.keywords[k]) }

\* S: the summed size of the clusters (given by position) that hold a matching sentence
TouchedSize(matching, positions) ==
    Cardinality(UNION { { positions[c][m] : m \in 1..Len(positions[c]) } :
                          c \in { d \in 1..Len(positions) :
                                    \E m \in 1..Len(positions[d]) : positions[d][m] \in matching } })

\* the pain points of the Report with the issue of entry p
PainPointsOf(p) ==
    { i \in 1..Len(report.value.pain_points) : report.value.pain_points[i].issue = p.issue }

\* k = 0: no pain point; k >= 1: one pain point with k + floor((S - k) / 2) mentions
CountedWith(p, k, S) ==
    /\ S >= k
    /\ k = 0 => PainPointsOf(p) = {}
    /\ k >= 1 =>
          /\ Cardinality(PainPointsOf(p)) = 1
          /\ \A i \in PainPointsOf(p) :
                report.value.pain_points[i].frequency
                   \in { ToString(k + ((S - k) \div 2)) \o " mention",
                         ToString(k + ((S - k) \div 2)) \o " mentions" }

Counted(p, matching, positions) ==
    CountedWith(p, Cardinality(matching), TouchedSize(matching, positions))

AllCounted(lowered, positions) ==
    \A e \in 1..Len(PAIN_KEYWORDS) :
        Counted(PAIN_KEYWORDS[e], MatchingPositions(PAIN_KEYWORDS[e], lowered), positions)

\* C18: a pain-point entry with k >= 1 matching sentences gives a pain point
\* with k + floor((S - k) / 2) mentions, S being the summed size of the
\* clusters at the default threshold that hold a matching sentence; S - k is
\* never negative, so that the count is never below k; an entry with k = 0
\* gives no pain point, whatever the clusters are.
MentionsCountClusterBoost ==
    Reported => AllCounted(LowerAll(extractSentences(input)),
                           clusterIndices(extractSentences(input), DefaultThreshold))

\* a pain point with more mentions than matching sentences
BoostedWith(p, k) ==
    /\ k >= 1
    /\ \E i \in PainPointsOf(p) :
          report.value.pain_points[i].frequency = ToString(k + 1) \o " mentions"

MentionsBoosted ==
    /\ Reported
    /\ \E e \in 1..Len(PAIN_KEYWORDS) :
          BoostedWith(PAIN_KEYWORDS[e],
                      Cardinality(MatchingPositions(PAIN_KEYWORDS[e],
                                                    LowerAll(extractSentences(input)))))

(***************************************************************************)
(* The fallbacks of the emotions and of the biases                         *)
(***************************************************************************)
\* the places of an emotion in the Report
EmotionAt(name) ==
    { i \in 1..Len(report.value.emotional_patterns) :
        report.value.emotional_patterns[i].emotion = name }

\* no sentence, given in lower case, holds a keyword of EMOTION_KEYWORDS
NoEmotionKeyword(lowered) ==
    \A e \in 1..Len(EMOTION_KEYWORDS) : \A i \in 1..Len(lowered) :
        \A k \in 1..Len(EMOTION_KEYWORDS[e].keywords) :
            ~includes(lowered[i], EMOTION_KEYWORDS[e].keywords[k])

\* the sentiments inferSentiment gives to the sentences
SentimentsOf(sentences) == { inferSentiment(sentences[i]) : i \in 1..Len(sentences) }

EmotionFallback(lowered, sentiments) ==
    NoEmotionKeyword(lowered) =>
        /\ EmotionAt("Implicit Dissatisfaction") # {} <=> "negative" \in sentiments
        /\ EmotionAt("Implicit Approval") # {} <=> "positive" \in sentiments
        /\ \A i \in EmotionAt("Implicit Dissatisfaction") : \A j \in EmotionAt("Implicit Approval") :
              i < j
        /\ EmotionAt("Neutral Engagement") # {}
              => /\ "negative" \notin sentiments
                 /\ "positive" \notin sentiments
                 /\ EmotionAt("Implicit Dissatisfaction") = {}
                 /\ EmotionAt("Implicit Approval") = {}

\* C19: when no sentence holds an emotion keyword, the Report holds "Implicit
\* Dissatisfaction" exactly when a sentence has negative sentiment and
\* "Implicit Approval" exactly when a sentence has positive sentiment, the
\* first before the second when both are there; it holds "Neutral Engagement"
\* only when no sentence is negative or positive, and never with either of
\* the other two.
EmotionFallbackExact ==
    Reported => EmotionFallback(LowerAll(extractSentences(input)),
                                SentimentsOf(extractSentences(input)))

\* a Report with "Implicit Dissatisfaction" followed by "Implicit Approval",
\* for a text whose first sentence is the positive one
BothImplicitEmotions ==
    /\ Reported
    /\ EmotionAt("Implicit Dissatisfaction") = {1}
    /\ EmotionAt("Implicit Approval") = {2}
    /\ inferSentiment(extractSentences(input)[1]) = "positive"

\* the Report holds the bias
HasBias(name) ==
    \E i \in 1..Len(report.value.cognitive_biases) : report.value.cognitive_biases[i].bias = name

\* no keyword of BIAS_PATTERNS occurs in the lowercased text
NoBiasKeyword(lowerText) ==
    \A b \in 1..Len(BIAS_PATTERNS) : \A k \in 1..Len(BIAS_PATTERNS[b].keywords) :
        ~includes(lowerText, BIAS_PATTERNS[b].keywords[k])

\* s is a letter, a digit or "_"
IsWordChar(c) == c \in CharsOf("abcdefghijklmnopqrstuvwxyz0123456789_")

\* word stands in lower at position i as a whole word
WholeWordAt(lower, word, i) ==
    /\ SubSeq(lower, i, i + Len(word) - 1) = word
    /\ i = 1 \/ ~IsWordChar(SubSeq(lower, i - 1, i - 1))
    /\ i + Len(word) - 1 = Len(lower) \/ ~IsWordChar(SubSeq(lower, i + Len(word), i + Len(word)))

\* some sentence, given in lower case, holds one of the words as a whole word
SomeSentenceWith(lowered, words) ==
    \E n \in 1..Len(lowered) : \E w \in 1..Len(words) :
        \E i \in 1..(Len(lowered[n]) - Len(words[w]) + 1) :
            WholeWordAt(lowered[n], words[w], i)

BiasFallback(lowered) ==
    /\ HasBias("Absolutist Thinking")
          <=> SomeSentenceWith(lowered, <<"always", "never", "every", "all", "none",
                                            "impossible", "definitely", "absolutely",
                                            "completely">>)
    /\ HasBias("Comparative Framing")
          <=> SomeSentenceWith(lowered, <<"better", "worse", "more", "less", "than",
                                            "compared", "versus", "vs">>)

\* C20: when no bias keyword is in the text, the fallback is additive: the
\* Report holds "Absolutist Thinking" exactly when a sentence holds a word of
\* absolute language and "Comparative Framing" exactly when a sentence holds a
\* word of comparison, each decided without regard to the other, so that it
\* holds both when both kinds of sentence are there.
BiasFallbackAdditive ==
    (Reported /\ NoBiasKeyword(toLowerCase(input)))
       => BiasFallback(LowerAll(extractSentences(input)))

\* a Report with both inferred biases
BothInferredBiases ==
    /\ Reported
    /\ NoBiasKeyword(toLowerCase(input))
    /\ HasBias("Absolutist Thinking")
    /\ HasBias("Comparative Framing")

\* the entry of BIAS_PATTERNS has a keyword in one of the sentences, given in lower case
KeywordInSentence(b, lowered) ==
    \E n \in 1..Len(lowered) : includesAny(lowered[n], b.keywords)

BiasesFromSentences(lowered) ==
    \A i \in 1..Len(BIAS_PATTERNS) :
        HasBias(BIAS_PATTERNS[i].bias) => KeywordInSentence(BIAS_PATTERNS[i], lowered)

BiasesFromText(lowerText) ==
    \A i \in 1..Len(BIAS_PATTERNS) :
        HasBias(BIAS_PATTERNS[i].bias) <=> includesAny(lowerText, BIAS_PATTERNS[i].keywords)

ThemesNamed(name) ==
    { i \in 1..Len(report.value.behavioral_themes) : report.value.behavioral_themes[i].theme = name }

\* C22: the fixed default themes are appended only when no theme of the list
\* has their label, a theme of the implicit-pattern detectors included, so
\* "Efficiency Seeking" and "Feature Exploration" each appear at most once in
\* a Report.
DefaultThemesAtMostOnce ==
    Reported =>
        /\ Cardinality(ThemesNamed("Efficiency Seeking")) <= 1
        /\ Cardinality(ThemesNamed("Feature Exploration")) <= 1

\* the construction step a recommendation past the pain points comes from:
\* 2 emotion-driven, 3 theme-driven, 4 default
RecStage(rec) ==
    IF EndsWith(rec.category, " Mitigation") THEN 2
    ELSE IF rec.category \in {"User Research", "Feedback Loop"} THEN 4
    ELSE 3

\* the label a recommendation of the stage takes from the finding
StageLabels(r, stage) ==
    IF stage = 2
    THEN [i \in 1..Len(r.emotional_patterns) |-> r.emotional_patterns[i].emotion \o " Mitigation"]
    ELSE IF stage = 3
    THEN [i \in 1..Len(r.behavioral_themes) |-> r.behavioral_themes[i].theme]
    ELSE <<"User Research", "Feedback Loop">>

\* the first place of the label among the labels, 0 when it is not there
FirstPlace(labels, label) ==
    IF \E i \in 1..Len(labels) : labels[i] = label
    THEN CHOOSE i \in 1..Len(labels) :
            labels[i] = label /\ \A j \in 1..(i - 1) : labels[j] # label
    ELSE 0

\* the place of the finding a recommendation past the pain points was built from
RecPlace(r, rec) == FirstPlace(StageLabels(r, RecStage(rec)), rec.category)

OrderKept(r, recs, top) ==
    /\ Len(recs) >= Len(top)
    /\ \A i \in 1..Len(top) :
          /\ recs[i].category = top[i].issue
          /\ recs[i].priority = <<"high", "medium", "low">>[i]
    /\ \A j \in (Len(top) + 1)..Len(recs) :
          /\ RecPlace(r, recs[j]) > 0
          /\ \A i \in (Len(top) + 1)..(j - 1) :
                \/ RecStage(recs[i]) < RecStage(recs[j])
                \/ /\ RecStage(recs[i]) = RecStage(recs[j])
                   /\ RecPlace(r, recs[i]) < RecPlace(r, recs[j])

\* C23: the recommendations keep the order of their construction: the first
\* min(3, number of pain points) of them follow the first pain points one to
\* one, with priorities high, medium, low by position whatever the severity,
\* and after them come the emotion-driven, then the theme-driven, then the
\* default ones, each group in the order of its findings; the list is not
\* sorted by priority.
RecommendationsInConstructionOrder ==
    \A c \in 1..Len(calls) :
        ~calls[c].outcome.threw =>
            OrderKept(calls[c].outcome.value, calls[c].outcome.value.recommendations,
                      slice(calls[c].outcome.value.pain_points, 3))

\* the recommendations of a Report with the priorities in this order
Prioritized(r, priorities) ==
    /\ Len(r.recommendations) = Len(priorities)
    /\ \A i \in 1..Len(priorities) : r.recommendations[i].priority = priorities[i]

\* a Report with more than three pain points, the first of severity low, whose
\* recommendations of all stages but the default one end on priority medium
\* after a priority low
PriorityOutOfOrder ==
    \E c \in 1..Len(calls) :
        /\ ~calls[c].outcome.threw
        /\ Len(calls[c].outcome.value.pain_points) > 3
        /\ calls[c].outcome.value.pain_points[1].severity = "low"
        /\ Prioritized(calls[c].outcome.value,
                       <<"high", "medium", "low", "medium", "medium", "medium">>)
        /\ RecStage(calls[c].outcome.value.recommendations[4]) = 2
        /\ RecStage(calls[c].outcome.value.recommendations[5]) = 3

\* no two recommendations of the Report have the same category
DistinctCategories(recs) ==
    \A i, j \in 1..Len(recs) : i # j => recs[i].category # recs[j].category

\* C24: the recommendations are de-duplicated by category at every step of
\* their construction: in every Report no two recommendations have the same
\* category, two recommendations made from pain points included.
NoDuplicateCategory ==
    \A c \in 1..Len(calls) :
        ~calls[c].outcome.threw => DistinctCategories(calls[c].outcome.value.recommendations)

\* the quotes of the two personas, given the segmented sentences (0-based
\* index n \div 2 is place (n \div 2) + 1 of the sequence)
QuotesFrom(S, primary, secondary) ==
    /\ primary.quote # "" /\ secondary.quote # ""
    /\ Len(S) = 0 <=> primary.quote = "I use this daily but there's room to grow."
    /\ Len(S) = 0 <=> secondary.quote = "I just want it to be straightforward."
    /\ Len(S) >= 1 =>
          /\ (Len(S) \div 2) + 1 \in 1..Len(S)
          /\ primary.quote = S[1]
          /\ secondary.quote = S[(Len(S) \div 2) + 1]

\* C25: with n segmented sentences the first persona quotes sentence 0 and
\* the second the sentence at index floor(n / 2), a valid index whenever
\* n >= 1; the fixed fallback quotes are used exactly when n = 0, and no
\* quote is the empty string.
PersonaQuotes ==
    Reported =>
        QuotesFrom(extractSentences(input), report.value.personas[1], report.value.personas[2])

\* three different sentences, the second quoted by the second persona
MiddleSentenceQuoted ==
    /\ Reported
    /\ Len(extractSentences(input)) = 3
    /\ report.value.personas[2].quote = extractSentences(input)[2]
    /\ extractSentences(input)[2] \notin {extractSentences(input)[1], extractSentences(input)[3]}

\* the sentence at the seed of cluster c is similar to the sentence at position p
SeedSimilar(c, p) ==
    GE(semanticSimilarity(argSentences[retClusters.positions[c][1]], argSentences[p]),
       argThreshold)

\* any two seeds are less similar than the threshold, and every other member
\* is in the cluster of the earliest seed it is similar to
GreedyAssignment ==
    /\ \A c, d \in 1..Len(retClusters.positions) :
          c # d => ~SeedSimilar(c, retClusters.positions[d][1])
    /\ \A c \in 1..Len(retClusters.positions) : \A m \in 2..Len(retClusters.positions[c]) :
          /\ SeedSimilar(c, retClusters.positions[c][m])
          /\ \A d \in 1..(c - 1) : ~SeedSimilar(d, retClusters.positions[c][m])

\* one cluster that holds every sentence
SingleCluster ==
    /\ Len(retClusters.clusters) = 1
    /\ retClusters.clusters[1] = argSentences

\* C26 as stated: the assignment is greedy, and with threshold 0 the output
\* is a single cluster holding all sentences.
GreedySingleAtZero ==
    retClusters.called =>
        /\ GreedyAssignment
        /\ argThreshold.num = 0 => SingleCluster

\* C26: any two cluster seeds have a similarity strictly below the threshold,
\* and every member that is not a seed is in the cluster of the earliest seed
\* whose similarity to it is at least the threshold; with threshold 0 and at
\* least one sentence the output is a single cluster holding all sentences,
\* and for no sentence it is no cluster.
GreedySingleAtZeroUnlessEmpty ==
    retClusters.called =>
        /\ GreedyAssignment
        /\ (argThreshold.num = 0 /\ Len(argSentences) >= 1) => SingleCluster
        /\ Len(argSentences) = 0 => Len(retClusters.clusters) = 0

\* a member similar to two seeds, clustered with the earlier one
MemberOfEarliestSeed ==
    /\ retClusters.called
    /\ Len(retClusters.positions) = 2
    /\ Len(retClusters.positions[1]) = 2
    /\ SeedSimilar(2, retClusters.positions[1][2])

\* C27: the emotional_patterns of a Report are empty exactly when the text
\* yields no sentence: with at least one sentence the explicit stage or the
\* sentiment fallback reports at least one emotional finding.
EmotionsEmptyIffNoSentence ==
    Reported =>
        (Len(report.value.emotional_patterns) = 0 <=> Len(extractSentences(input)) = 0)

\* sentences without an emotion keyword and without a sentiment signal: the
\* fallback reports "Neutral Engagement" alone
OnlyNeutralEngagement ==
    /\ Reported
    /\ Len(extractSentences(input)) >= 2
    /\ Len(report.value.emotional_patterns) = 1
    /\ report.value.emotional_patterns[1].emotion = "Neutral Engagement"

\* the Report recommends the category
Recommends(r, category) ==
    \E i \in 1..Len(r.recommendations) : r.recommendations[i].category = category

\* a negative emotional finding whose intensity is not Low
QualifyingNegative(r) ==
    \E i \in 1..Len(r.emotional_patterns) :
        /\ r.emotional_patterns[i].sentiment = "negative"
        /\ r.emotional_patterns[i].intensity # "Low"

AtMostOneDefault(r) ==
    /\ ~Recommends(r, "Feedback Loop")
    /\ Recommends(r, "User Research") =>
          /\ r.behavioral_themes[1].theme = r.behavioral_themes[2].theme
          /\ Len(r.pain_points) = 0
          /\ ~QualifyingNegative(r)
          /\ Len(r.recommendations) = 2
          /\ r.recommendations[2].category = "User Research"

\* C28: after the theme-driven step there is at least one recommendation, so
\* at most one default is appended: no Report recommends "Feedback Loop", and
\* a Report recommends "User Research" only when its first two themes have
\* the same label and it has no pain point and no negative emotion of
\* intensity above Low; "User Research" is then the second of two
\* recommendations.
OnlyUserResearchDefault ==
    Reported => AtMostOneDefault(report.value)

\* a Report whose first two themes have the same label and which recommends
\* "User Research"
UserResearchRecommended ==
    /\ Reported
    /\ Recommends(report.value, "User Research")
    /\ report.value.behavioral_themes[1].theme = report.value.behavioral_themes[2].theme

\* what the page shows: {result && !isAnalyzing && <AnalysisResults .../>}
Displayed == result # NoResult /\ ~isAnalyzing

\* C29: at most one analysis is in flight at any time: a handleAnalyze waits
\* for its timer exactly while isAnalyzing is true, and it is the only one;
\* while isAnalyzing is true, result is null and no Report is displayed.
OneAnalysisInFlight ==
    /\ Len(timers) <= 1
    /\ isAnalyzing <=> Len(timers) = 1
    /\ isAnalyzing => (result = NoResult /\ ~Displayed)

\* an analysis in flight while the text has 5 words or more and differs from
\* the text under analysis: the button is disabled by isAnalyzing alone
SecondClickDisabled ==
    /\ isAnalyzing
    /\ timers # <<>>
    /\ input # Head(timers)
    /\ wordCount(input) >= MinWords

\* the Report of each text of the page
ReportOf == [t \in PageTexts |-> Analyses[t].outcome.value]

\* C30: every analysis handleAnalyze starts completes: isAnalyzing returns
\* to false with result holding the Report of the text that was passed at the
\* click, whatever the input text has become during the delay.
EveryAnalysisCompletes ==
    \A t \in PageTexts :
        (isAnalyzing /\ timers = <<t>>)
            ~> (~isAnalyzing /\ timers = <<>> /\ result = <<ReportOf[t]>>)

\* an analysis in flight whose text has since been replaced by a text with
\* another Report
TextEditedDuringDelay ==
    /\ isAnalyzing
    /\ timers = <<ThreeSentences>>
    /\ input = FourPainPoints

====
